---------------------------- MODULE Spec2Model ----------------------------
(***************************************************************************)
(* Ezville Wallpad RS485 bridge: the packet codec, the frame reader, the   *)
(* packet classifier / state decoder and the command encoder of            *)
(* EzvilleRS485Client (custom_components/ezville_wallpad/rs485_client.py), *)
(* and the command dispatcher of the stand-alone script                    *)
(* (ezville_wallpad.py).                                                   *)
(*                                                                         *)
(* A packet is a sequence of bytes (naturals below 256), 1-indexed here:   *)
(* Python's packet[i] is packet[i+1] in this module.                       *)
(***************************************************************************)
EXTENDS Integers, Sequences, FiniteSets, TLC

VARIABLES
    running,        \* EzvilleRS485Client._running
    send_queue,     \* EzvilleRS485Client._send_queue: packet -> enqueue time
    discovered,     \* EzvilleRS485Client._discovered_devices
    device_states,  \* EzvilleRS485Client._device_states: key -> state
    buffer,         \* the bytearray `buffer` of _message_loop
    wire,           \* bytes the transport has not handed to recv() yet
    events,         \* the callbacks invoked so far, in order
    delivered,      \* the packets handed to _process_packet so far, in order
    scenario,       \* the inputs drawn at the start: what the caller or the bus will offer
    sent,           \* the packets handed to the transport's send(), in order
    calls,          \* the send_command calls made so far, with their packets
    probe,          \* a packet given to _verify_checksum
    flipped,        \* the probe with one bit flipped
    now,            \* the clock, time.time()
    recv_buf,       \* script: EzVilleSocket._recv_buf
    pending_recv,   \* script: EzVilleSocket._pending_recv
    serial_queue,   \* script: serial_queue, packet -> enqueue time
    serial_ack,     \* script: serial_ack, expected ack header -> packet
    pc,             \* script: where daemon stands in its loop
    bus,            \* script: the packets the bus has put on the socket so far
    ack_queue,      \* EzvilleRS485Client._ack_queue
    stragglers,     \* worker threads that outlived close(): where each stands, its buffer
    previous_mqtt_values,  \* EzvilleRS485Client._previous_mqtt_values
    raised,         \* the exceptions _conn.send and _conn.recv raised in _message_loop
    last,           \* script: RS485_DEVICE[device]["last"], idn -> True or the last packet
    last_topic_list,       \* script: last_topic_list, topic -> value
    registered_entities,   \* script: registered_entities, as (device, entity_id) pairs
    published,      \* script: what was given to mqtt.publish, in order
    discovery       \* script: Options["mqtt"]["_discovery"]

clientVars == <<running, send_queue, discovered, device_states, buffer, wire,
                events, delivered, scenario, sent, calls, probe, flipped, now>>

scriptVars == <<recv_buf, pending_recv, serial_queue, serial_ack, pc, bus>>

linkVars == <<ack_queue, stragglers, previous_mqtt_values, raised>>

publishVars == <<last, last_topic_list, registered_entities, published, discovery>>

vars == <<clientVars, scriptVars, linkVars, publishVars>>

\* an empty dict
EmptyAck == [k \in {} |-> <<>>]

\* the rest of EzvilleRS485Client as __init__ leaves it
LinkStart ==
    /\ ack_queue = <<>>
    /\ stragglers = <<>>
    /\ previous_mqtt_values = EmptyAck
    /\ raised = <<>>

\* what create_initial_devices registers before any packet is read
InitialEntities ==
    {<<"light", "1_1">>, <<"light", "1_2">>, <<"light", "1_3">>,
     <<"plug", "1_1">>, <<"plug", "1_2">>, <<"thermostat", "1">>}

\* the script's publishing side after mqtt_init_discovery, discovery switched on
PublishStart ==
    /\ last = EmptyAck
    /\ last_topic_list = EmptyAck
    /\ registered_entities = InitialEntities
    /\ published = <<>>
    /\ discovery = TRUE

\* the script's globals and its EzVilleSocket as created
ScriptStart ==
    /\ recv_buf = <<>>
    /\ pending_recv = 0
    /\ serial_queue = <<>>
    /\ serial_ack = EmptyAck
    /\ pc = "process"
    /\ bus = <<>>

-----------------------------------------------------------------------------
(* Bytes *)

F7 == 247

Byte == 0 .. 255

RECURSIVE BitXor(_, _)
BitXor(a, b) ==
    IF a = 0 THEN b
    ELSE IF b = 0 THEN a
    ELSE (((a % 2) + (b % 2)) % 2) + 2 * BitXor(a \div 2, b \div 2)

RECURSIVE BitAnd(_, _)
BitAnd(a, b) ==
    IF a = 0 \/ b = 0 THEN 0
    ELSE ((a % 2) * (b % 2)) + 2 * BitAnd(a \div 2, b \div 2)

BitOr(a, b) == a + b - BitAnd(a, b)

RECURSIVE XorFold(_)
XorFold(s) == IF s = <<>> THEN 0 ELSE BitXor(Head(s), XorFold(Tail(s)))

RECURSIVE Sum(_)
Sum(s) == IF s = <<>> THEN 0 ELSE Head(s) + Sum(Tail(s))

\* Python's s[:-k] and s[k:]
DropLast(s, k) == IF Len(s) <= k THEN <<>> ELSE SubSeq(s, 1, Len(s) - k)
DropFirst(s, k) == IF Len(s) <= k THEN <<>> ELSE SubSeq(s, k + 1, Len(s))
TakeFirst(s, k) == IF Len(s) <= k THEN s ELSE SubSeq(s, 1, k)

Pow2(k) == CASE k = 0 -> 1 [] k = 1 -> 2 [] k = 2 -> 4 [] k = 3 -> 8
             [] k = 4 -> 16 [] k = 5 -> 32 [] k = 6 -> 64 [] OTHER -> 128

HexDigit(d) == CASE d = 0 -> "0" [] d = 1 -> "1" [] d = 2 -> "2" [] d = 3 -> "3"
                 [] d = 4 -> "4" [] d = 5 -> "5" [] d = 6 -> "6" [] d = 7 -> "7"
                 [] d = 8 -> "8" [] d = 9 -> "9" [] d = 10 -> "a" [] d = 11 -> "b"
                 [] d = 12 -> "c" [] d = 13 -> "d" [] d = 14 -> "e" [] OTHER -> "f"

HexDigitUpper(d) == CASE d = 10 -> "A" [] d = 11 -> "B" [] d = 12 -> "C"
                      [] d = 13 -> "D" [] d = 14 -> "E" [] d = 15 -> "F"
                      [] OTHER -> HexDigit(d)

\* f"{b:02x}" and f"{b:02X}"
Hex2(b) == HexDigit(b \div 16) \o HexDigit(b % 16)
Hex2Upper(b) == HexDigitUpper(b \div 16) \o HexDigitUpper(b % 16)

\* bytes.hex()
RECURSIVE HexOf(_)
HexOf(s) == IF s = <<>> THEN "" ELSE Hex2(Head(s)) \o HexOf(Tail(s))

-----------------------------------------------------------------------------
(* const.py: the device table of the integration *)

DeviceOrder ==
    <<"light", "plug", "thermostat", "fan", "gas", "energy", "elevator", "doorbell">>

DeviceTypes == {DeviceOrder[i] : i \in DOMAIN DeviceOrder}

RS485_DEVICE ==
    [light |->
        [state |-> [id |-> 14, cmd |-> 129], last |-> <<>>,
         power |-> [id |-> 14, cmd |-> 65, ack |-> 193]],
     plug |->
        [state |-> [id |-> 57, cmd |-> 129], last |-> <<>>,
         power |-> [id |-> 57, cmd |-> 65, ack |-> 193]],
     thermostat |->
        [state |-> [id |-> 54, cmd |-> 129], last |-> <<>>,
         mode |-> [id |-> 54, cmd |-> 67, ack |-> 195],
         target |-> [id |-> 54, cmd |-> 68, ack |-> 196],
         away |-> [id |-> 54, cmd |-> 70, ack |-> 198]],
     fan |->
        [state |-> [id |-> 50, cmd |-> 129], last |-> <<>>,
         power |-> [id |-> 50, cmd |-> 65, ack |-> 193],
         speed |-> [id |-> 50, cmd |-> 66, ack |-> 194],
         mode |-> [id |-> 50, cmd |-> 67, ack |-> 195]],
     gas |->
        [state |-> [id |-> 18, cmd |-> 129], last |-> <<>>,
         close |-> [id |-> 18, cmd |-> 65, ack |-> 193]],
     energy |->
        [state |-> [id |-> 48, cmd |-> 129], last |-> <<>>],
     elevator |->
        [state |-> [id |-> 51, cmd |-> 129], last |-> <<>>,
         power |-> [id |-> 51, cmd |-> 65, ack |-> 193],
         call |-> [id |-> 51, cmd |-> 67, ack |-> 195]],
     doorbell |->
        [state |-> [id |-> 64, cmd |-> 129], last |-> <<>>,
         call |-> [id |-> 64, cmd |-> 16, ack |-> 192],
         ring |-> [id |-> 64, cmd |-> 19, ack |-> 195],
         talk |-> [id |-> 64, cmd |-> 18, ack |-> 194],
         open |-> [id |-> 64, cmd |-> 34, ack |-> 194],
         cancel |-> [id |-> 64, cmd |-> 17, ack |-> 193]]]

\* STATE_HEADER: device id -> (device, state cmd); every id is used once
StateIds == {RS485_DEVICE[d].state.id : d \in DeviceTypes}

STATE_HEADER(id) ==
    LET d == CHOOSE x \in DeviceTypes : RS485_DEVICE[x].state.id = id
    IN  <<d, RS485_DEVICE[d].state.cmd>>


-----------------------------------------------------------------------------
(* EzvilleRS485Client._verify_checksum *)

\* checksum_ok: XOR of packet[:-2] equals packet[-2]
checksum_ok(packet) == XorFold(DropLast(packet, 2)) = packet[Len(packet) - 1]

\* add_ok: sum(packet[:-1]) & 0xFF equals packet[-1]
add_ok(packet) == Sum(DropLast(packet, 1)) % 256 = packet[Len(packet)]

verify_checksum_checksum_only(packet) ==
    IF Len(packet) < 2 THEN FALSE ELSE checksum_ok(packet)

verify_checksum_add_only(packet) ==
    IF Len(packet) < 2 THEN FALSE ELSE add_ok(packet)

verify_checksum(packet) ==
    IF Len(packet) < 2 THEN FALSE
    ELSE checksum_ok(packet) /\ add_ok(packet)

-----------------------------------------------------------------------------
(* EzvilleRS485Client._create_command_packet                               *)
(*                                                                         *)
(* idn: the parts of the idn string between underscores, as numbers        *)
(* ("1_2" is <<1, 2>>); the empty sequence is None.                        *)
(* payload: a tagged Python value.                                         *)

PyBool(b) == [t |-> "bool", b |-> b, n |-> 0, s |-> ""]
PyInt(n) == [t |-> "int", b |-> FALSE, n |-> n, s |-> ""]
PyStr(s) == [t |-> "str", b |-> FALSE, n |-> 0, s |-> s]
PyNone == [t |-> "none", b |-> FALSE, n |-> 0, s |-> ""]

\* `if payload`
Truthy(payload) ==
    CASE payload.t = "bool" -> payload.b
      [] payload.t = "int" -> payload.n # 0
      [] payload.t = "str" -> payload.s # ""
      [] OTHER -> FALSE

\* int(payload) succeeds for bool and int; the strings used here are not numerals
IntOk(payload) == payload.t \in {"bool", "int"}
IntOf(payload) == IF payload.t = "bool" THEN (IF payload.b THEN 1 ELSE 0) ELSE payload.n

Built(packet) == [status |-> "packet", packet |-> packet]
NonePacket == [status |-> "none", packet |-> <<>>]
Raised == [status |-> "raise", packet |-> <<>>]

\* bytearray([...]) raises ValueError on a value outside range(256)
AllBytes(s) == \A i \in DOMAIN s : s[i] \in Byte

\* "Pad to 8 bytes minimum"
RECURSIVE Pad8(_)
Pad8(packet) == IF Len(packet) < 8 THEN Pad8(Append(packet, 0)) ELSE packet

\* "Calculate checksum": the last two bytes are overwritten
trailer_add_verifier(packet) ==
    [packet EXCEPT ![Len(packet) - 1] = XorFold(DropLast(packet, 2)),
                   ![Len(packet)] =
                       (Sum(DropLast(packet, 2)) + XorFold(DropLast(packet, 2))) % 256]

trailer(packet) ==
    [packet EXCEPT ![Len(packet) - 1] = XorFold(DropLast(packet, 2)),
                   ![Len(packet)] = Sum(DropLast(packet, 2)) % 256]

Finish(packet) ==
    IF AllBytes(packet) THEN Built(trailer(Pad8(packet))) ELSE Raised

HasCode(cmd_info) == "id" \in DOMAIN cmd_info /\ "cmd" \in DOMAIN cmd_info

\* variant without the "Invalid light IDN format" test
light_packet_any_idn(cmd_info, idn, payload) ==
    IF idn = <<>> THEN Raised
    ELSE IF ~HasCode(cmd_info) THEN Raised
    ELSE Finish(<<F7, cmd_info.id, idn[1], cmd_info.cmd, 3, idn[Len(idn)],
                  IF Truthy(payload) THEN 1 ELSE 0, 0>>)

light_packet(cmd_info, idn, payload) ==
    IF idn = <<>> THEN Raised                      \* None.split
    ELSE IF Len(idn) # 2 THEN NonePacket           \* "Invalid light IDN format"
    ELSE IF ~HasCode(cmd_info) THEN Raised         \* KeyError
    ELSE Finish(<<F7, cmd_info.id, idn[1], cmd_info.cmd, 3, idn[2],
                  IF Truthy(payload) THEN 1 ELSE 0, 0>>)

plug_packet_with_plug_num(cmd_info, idn, payload) ==
    IF idn = <<>> THEN Raised
    ELSE IF Len(idn) # 2 THEN NonePacket
    ELSE IF ~HasCode(cmd_info) THEN Raised
    ELSE Finish(<<F7, cmd_info.id, idn[1] * 16 + idn[2], cmd_info.cmd, 1,
                  IF Truthy(payload) THEN 17 ELSE 16>>)

plug_packet(cmd_info, idn, payload) ==
    IF idn = <<>> THEN Raised
    ELSE IF Len(idn) # 2 THEN NonePacket           \* "Invalid plug IDN format"
    ELSE IF ~HasCode(cmd_info) THEN Raised
    ELSE Finish(<<F7, cmd_info.id, idn[1] * 16, cmd_info.cmd, 1,
                  IF Truthy(payload) THEN 17 ELSE 16>>)

thermostat_packet(command, cmd_info, idn, payload) ==
    IF Len(idn) # 1 THEN Raised                    \* int(idn)
    ELSE IF ~HasCode(cmd_info) THEN Raised
    ELSE IF command = "target" /\ ~IntOk(payload) THEN Raised
    ELSE Finish(<<F7, cmd_info.id, idn[1] * 16, cmd_info.cmd, 1,
                  CASE command = "mode" ->
                           (IF payload.t = "str" /\ payload.s = "heat" THEN 1 ELSE 0)
                    [] command = "target" -> IntOf(payload) % 256
                    [] command = "away" -> (IF Truthy(payload) THEN 1 ELSE 0)
                    [] OTHER -> 0>>)

other_packet(cmd_info, idn, payload) ==
    IF Len(idn) > 1 THEN Raised                    \* int(idn)
    ELSE IF ~HasCode(cmd_info) THEN Raised
    ELSE Finish(<<F7, cmd_info.id, IF idn = <<>> THEN 1 ELSE idn[1], cmd_info.cmd,
                  CASE payload.t = "bool" -> (IF payload.b THEN 1 ELSE 0)
                    [] payload.t = "int" -> payload.n % 256
                    [] OTHER -> 0>>)

create_command_packet(device, command, idn, payload) ==
    IF device \notin DOMAIN RS485_DEVICE THEN NonePacket
    ELSE IF command \notin DOMAIN RS485_DEVICE[device] THEN NonePacket
    ELSE LET cmd_info == RS485_DEVICE[device][command]
         IN  CASE device = "light" -> light_packet(cmd_info, idn, payload)
               [] device = "plug" -> plug_packet(cmd_info, idn, payload)
               [] device = "thermostat" ->
                      thermostat_packet(command, cmd_info, idn, payload)
               [] OTHER -> other_packet(cmd_info, idn, payload)

-----------------------------------------------------------------------------
(* EzvilleRS485Client: the classifier and the state decoder                *)
(*                                                                         *)
(* A session state st is [disc, states, ev]: _discovered_devices,          *)
(* _device_states and the callbacks invoked so far.  The coordinator       *)
(* registers one discovery callback and a state callback for every device  *)
(* type and for "unknown".                                                 *)

\* Python's packet[i]
At(packet, i) == packet[i + 1]

Min(a, b) == IF a <= b THEN a ELSE b

RegisteredCallbacks == DeviceTypes \cup {"unknown"}

DiscoverEvent(type, id, key) ==
    [kind |-> "discover", type |-> type, id |-> id, key |-> key, state |-> <<>>]

StateEvent(type, id, key, state) ==
    [kind |-> "state", type |-> type, id |-> id, key |-> key, state |-> state]

\* variant that calls the discovery callbacks and leaves the key out of the set
Discover_not_marking(st, type, id, key) ==
    IF key \in st.disc THEN st
    ELSE [st EXCEPT !.ev = Append(@, DiscoverEvent(type, id, key))]

\* "Check if new device": add the key and call the discovery callbacks
Discover(st, type, id, key) ==
    IF key \in st.disc THEN st
    ELSE [st EXCEPT !.disc = @ \cup {key},
                    !.ev = Append(@, DiscoverEvent(type, id, key))]

\* the state callback registered for `type`, if any
Notify(st, cbtype, type, id, key, state) ==
    IF cbtype \in RegisteredCallbacks
    THEN [st EXCEPT !.ev = Append(@, StateEvent(type, id, key, state))]
    ELSE st

\* variant that keeps the last state only, forgetting every other key
Store_forgetting(st, type, id, key, state) ==
    Notify([st EXCEPT !.states = (key :> state)], type, type, id, key, state)

\* "Update state" and "Call callback", whether or not the state changed
Store(st, type, id, key, state) ==
    Notify([st EXCEPT !.states = (key :> state) @@ @], type, type, id, key, state)

DiscoverAfterStore(st, type, id, key, state) ==
    Discover(Store(st, type, id, key, state), type, id, key)

Report(st, type, id, key, state) ==
    Store(Discover(st, type, id, key), type, id, key, state)

\* light: room = device_num & 0x0F, count = packet[4] - 1, states from index 6
light_room(packet) == At(packet, 2) % 16

light_key(packet, light_num) ==
    "light_" \o ToString(light_room(packet)) \o "_" \o ToString(light_num)

light_id(packet, light_num) ==
    ToString(light_room(packet)) \o "_" \o ToString(light_num)

light_count(packet) == At(packet, 4) - 1

light_first == 6

RECURSIVE light_loop(_, _, _, _)
light_loop(st, packet, light_num, stop) ==
    IF light_num >= stop THEN st
    ELSE light_loop(
             IF Len(packet) > light_first + light_num - 1
             THEN Report(st, "light", light_id(packet, light_num),
                         light_key(packet, light_num),
                         [power |-> At(packet, light_first + light_num - 1) % 2 = 1])
             ELSE st,
             packet, light_num + 1, stop)

light_state(st, packet) ==
    IF Len(packet) > 4
    THEN light_loop(st, packet, 1, Min(light_count(packet) + 1, 4))
    ELSE st

\* the hex digits of v read as a decimal numeral; -1 when a digit is a..f
RECURSIVE DecimalOfHex(_)
DecimalOfHex(v) ==
    IF v < 16 THEN (IF v <= 9 THEN v ELSE -1)
    ELSE LET hi == DecimalOfHex(v \div 16)
         IN  IF hi = -1 \/ v % 16 > 9 THEN -1 ELSE hi * 10 + (v % 16)

\* plug: float(f"{power_high:x}.{power_decimal:x}"), in tenths; 0.0 when float() fails
plug_usage(packet, base_idx) ==
    LET power_high == BitOr(BitOr(At(packet, base_idx) % 16, At(packet, base_idx + 1) * 16),
                            At(packet, base_idx + 2) \div 16)
        power_decimal == At(packet, base_idx + 2) % 16
    IN  IF DecimalOfHex(power_high) = -1 \/ power_decimal > 9 THEN 0
        ELSE DecimalOfHex(power_high) * 10 + power_decimal

plug_room(packet) == At(packet, 2) \div 16

plug_key(packet, plug_num) ==
    "plug_" \o ToString(plug_room(packet)) \o "_" \o ToString(plug_num)

plug_id(packet, plug_num) ==
    ToString(plug_room(packet)) \o "_" \o ToString(plug_num)

RECURSIVE plug_loop(_, _, _, _)
plug_loop(st, packet, plug_num, stop) ==
    IF plug_num >= stop THEN st
    ELSE LET base_idx == plug_num * 3 + 3
         IN  plug_loop(
                 IF Len(packet) > base_idx + 2
                 THEN Report(st, "plug", plug_id(packet, plug_num),
                             plug_key(packet, plug_num),
                             [power |-> (At(packet, base_idx) \div 16) % 2 = 1,
                              power_usage |-> plug_usage(packet, base_idx)])
                 ELSE st,
                 packet, plug_num + 1, stop)

plug_state(st, packet) ==
    IF Len(packet) > 5
    THEN plug_loop(st, packet, 1, Min((At(packet, 4) \div 3) + 1, 3))
    ELSE st

thermostat_key(room) == "thermostat_" \o ToString(room)

\* the special format (data_length 0x0D): pairs from index 10, at most 4 rooms
special_pair_present(packet, i) ==
    LET idx == 10 + i * 2
    IN  idx + 1 < Len(packet) /\ (At(packet, idx) > 0 \/ At(packet, idx + 1) > 0)

special_room_count(packet) ==
    Cardinality({i \in 0 .. 3 : special_pair_present(packet, i)})

RECURSIVE thermostat_special_loop(_, _, _, _)
thermostat_special_loop(st, packet, i, room_count) ==
    IF i >= room_count THEN st
    ELSE LET idx == 10 + i * 2
             swap == idx + 1 < Len(packet)
                     /\ At(packet, idx + 1) > 50 /\ At(packet, idx) < 50
             target_temp == IF swap THEN At(packet, idx + 1) ELSE At(packet, idx)
             current_temp == IF swap THEN At(packet, idx) ELSE At(packet, idx + 1)
         IN  thermostat_special_loop(
                 IF idx + 1 < Len(packet)
                 THEN Report(st, "thermostat", ToString(i + 1), thermostat_key(i + 1),
                             [mode |-> IF target_temp <= 5 THEN 0 ELSE 1,
                              away |-> FALSE,
                              current_temperature |-> current_temp,
                              target_temperature |-> target_temp])
                 ELSE st,
                 packet, i + 1, room_count)

\* the standard format: room count (data_length - 5) // 2, bit masks at 6 and 7
RECURSIVE thermostat_standard_loop(_, _, _, _)
thermostat_standard_loop(st, packet, thermo_idx, stop) ==
    IF thermo_idx >= stop THEN st
    ELSE LET mode_on == thermo_idx < 5
                        /\ ((At(packet, 6) % 32) \div Pow2(thermo_idx)) % 2 = 1
             away_on == thermo_idx < 5
                        /\ ((At(packet, 7) % 32) \div Pow2(thermo_idx)) % 2 = 1
         IN  thermostat_standard_loop(
                 IF Len(packet) < 8 + thermo_idx * 2 + 3 THEN st
                 ELSE Report(st, "thermostat", ToString(thermo_idx + 1),
                             thermostat_key(thermo_idx + 1),
                             [mode |-> IF mode_on THEN 1 ELSE 0,
                              away |-> away_on,
                              current_temperature |-> At(packet, 9 + thermo_idx * 2),
                              target_temperature |-> At(packet, 8 + thermo_idx * 2)]),
                 packet, thermo_idx + 1, stop)

thermostat_state(st, packet) ==
    IF Len(packet) <= 4 THEN st
    ELSE IF At(packet, 4) = 13
         THEN thermostat_special_loop(st, packet, 0, special_room_count(packet))
         ELSE thermostat_standard_loop(st, packet, 0,
                  Min(IF At(packet, 4) > 5 THEN (At(packet, 4) - 5) \div 2 ELSE 0, 15))

\* _parse_state: fan, gas, energy, elevator, doorbell; <<>> is the empty dict
AllDecimal3(b1, b2, b3) ==
    \A b \in {b1, b2, b3} : b \div 16 <= 9 /\ b % 16 <= 9

\* int(bytes.hex()) of three bytes whose hex digits are all decimal
IntOfDigits3(b1, b2, b3) ==
    ((((b1 \div 16) * 10 + (b1 % 16)) * 10 + (b2 \div 16)) * 10 + (b2 % 16)) * 100
        + (b3 \div 16) * 10 + (b3 % 16)

parse_state(device_type, packet) ==
    CASE device_type = "fan" ->
             IF Len(packet) > 8
             THEN [power |-> At(packet, 6) % 2 # 0,
                   speed |-> IF At(packet, 7) <= 3 THEN At(packet, 7) ELSE 0,
                   mode |-> CASE At(packet, 8) % 4 = 1 -> "bypass"
                              [] At(packet, 8) % 4 = 3 -> "heat"
                              [] OTHER -> "unknown"]
             ELSE <<>>
      [] device_type = "gas" ->
             IF Len(packet) > 6
             THEN [closed |-> (At(packet, 6) % 32) \div 16 # 1]
             ELSE <<>>
      [] device_type = "energy" ->
             IF Len(packet) > 12
             THEN [power |-> IF AllDecimal3(At(packet, 6), At(packet, 7), At(packet, 8))
                             THEN IntOfDigits3(At(packet, 6), At(packet, 7), At(packet, 8))
                             ELSE 0,
                   \* usage in tenths
                   usage |-> IF AllDecimal3(At(packet, 10), At(packet, 11), At(packet, 12))
                             THEN IntOfDigits3(At(packet, 10), At(packet, 11), At(packet, 12))
                             ELSE 0,
                   \* current_power in hundredths
                   current_power |->
                       (At(packet, 6) * 256 + At(packet, 7)) * 256 + At(packet, 8)]
             ELSE <<>>
      [] device_type = "elevator" ->
             IF Len(packet) > 6
             THEN [status |-> At(packet, 6) \div 16,
                   floor |-> At(packet, 6) % 16,
                   device_id |-> "0x" \o Hex2Upper(At(packet, 1)),
                   device_num |-> "0x" \o Hex2Upper(At(packet, 2)),
                   raw_packet |-> packet]
             ELSE <<>>
      [] device_type = "doorbell" ->
             IF Len(packet) > 4
             THEN [ring |-> At(packet, 4) = 1,
                   ringing |-> At(packet, 4) = 1
                               \/ (Len(packet) > 5 /\ At(packet, 5) = 1)]
             ELSE <<>>
      [] OTHER -> <<>>

process_state_packet(st, device_type, packet) ==
    CASE device_type = "light" -> light_state(st, packet)
      [] device_type = "plug" -> plug_state(st, packet)
      [] device_type = "thermostat" -> thermostat_state(st, packet)
      [] OTHER ->
             LET state_data == parse_state(device_type, packet)
             IN  IF state_data # <<>>
                 THEN Report(st, device_type, "None", device_type, state_data)
                 ELSE st

\* _handle_device_cmd_packet: a non-state packet of a known device
cmd_key(device_type, packet) ==
    IF device_type = "light"
    THEN "light_" \o ToString(At(packet, 2) % 16) \o "_cmd_" \o Hex2Upper(At(packet, 3))
    ELSE IF device_type = "plug"
    THEN "plug_" \o ToString(At(packet, 2) \div 16) \o "_cmd_" \o Hex2Upper(At(packet, 3))
    ELSE device_type \o "_cmd_" \o Hex2Upper(At(packet, 3))

cmd_state(device_type, packet) ==
    [device_id |-> "0x" \o Hex2Upper(At(packet, 1)),
     device_num |-> "0x" \o Hex2Upper(At(packet, 2)),
     command |-> "0x" \o Hex2Upper(At(packet, 3)),
     data |-> HexOf(packet),
     packet_length |-> Len(packet),
     base_device_type |-> device_type]

\* variant without the test for the 0x01 state request
handle_device_cmd_packet_no_skip(st, device_type, packet) ==
    IF Len(packet) < 4 THEN st
    ELSE LET key == cmd_key(device_type, packet)
             cbtype == device_type \o "_cmd"
         IN  Notify(Discover(st, cbtype, key, key),
                    IF cbtype \in RegisteredCallbacks THEN cbtype ELSE device_type,
                    cbtype, key, key, cmd_state(device_type, packet))

handle_device_cmd_packet(st, device_type, packet) ==
    IF Len(packet) < 4 THEN st
    ELSE IF At(packet, 3) = 1 THEN st              \* state request, skipped
    ELSE LET key == cmd_key(device_type, packet)
             cbtype == device_type \o "_cmd"
         IN  Notify(Discover(st, cbtype, key, key),
                    IF cbtype \in RegisteredCallbacks THEN cbtype ELSE device_type,
                    cbtype, key, key, cmd_state(device_type, packet))

\* _handle_unknown_device
unknown_signature(packet) == HexOf(SubSeq(packet, 1, 4))

unknown_state(packet) ==
    [device_id |-> "0x" \o Hex2Upper(At(packet, 1)),
     device_num |-> "0x" \o Hex2Upper(At(packet, 2)),
     command |-> "0x" \o Hex2Upper(At(packet, 3)),
     data |-> HexOf(packet),
     signature |-> unknown_signature(packet),
     packet_length |-> Len(packet)]

\* variant without the state_changed test: every unknown packet is reported
handle_unknown_device_always_notify(st, packet) ==
    IF Len(packet) < 4 THEN st
    ELSE LET signature == unknown_signature(packet)
             key == "unknown_" \o signature
             st1 == Discover(st, "unknown", signature, key)
         IN  Notify([st1 EXCEPT !.states = (key :> unknown_state(packet)) @@ @],
                    "unknown", "unknown", signature, key, unknown_state(packet))

handle_unknown_device(st, packet) ==
    IF Len(packet) < 4 THEN st
    ELSE LET signature == unknown_signature(packet)
             key == "unknown_" \o signature
             st1 == Discover(st, "unknown", signature, key)
         IN  IF key \in DOMAIN st1.states /\ st1.states[key].data = HexOf(packet)
             THEN st1
             ELSE Notify([st1 EXCEPT !.states = (key :> unknown_state(packet)) @@ @],
                         "unknown", "unknown", signature, key, unknown_state(packet))

\* _process_packet
known_device_type(device_id) ==
    IF device_id \in StateIds THEN STATE_HEADER(device_id)[1] ELSE "unknown"

is_state_packet(packet) ==
    /\ At(packet, 1) \in StateIds
    /\ At(packet, 3) = STATE_HEADER(At(packet, 1))[2]

\* variant that takes every packet of a known device for a state packet
classify_by_device(packet) ==
    IF At(packet, 1) \in StateIds THEN "state" ELSE "unknown"

\* "Step 2: Process based on device type": which handler gets the packet
classify(packet) ==
    IF At(packet, 1) \in StateIds
    THEN IF is_state_packet(packet) THEN "state" ELSE "cmd"
    ELSE "unknown"

process_packet(st, packet) ==
    IF Len(packet) < 4 THEN st
    ELSE CASE classify(packet) = "state" ->
                  process_state_packet(st, known_device_type(At(packet, 1)), packet)
           [] classify(packet) = "cmd" ->
                  handle_device_cmd_packet(st, known_device_type(At(packet, 1)), packet)
           [] OTHER -> handle_unknown_device(st, packet)

RECURSIVE process_packets(_, _)
process_packets(st, packets) ==
    IF packets = <<>> THEN st
    ELSE process_packets(process_packet(st, Head(packets)), Tail(packets))

-----------------------------------------------------------------------------
(* EzvilleRS485Client: connect and send_command *)

\* _send_queue[packet] = time.time(): a dict keeps the position of a key it has
\* variant in which a packet queued again moves behind the others
QueuePut_to_back(queue, packet, ts) ==
    Append(SelectSeq(queue, LAMBDA e : e.packet # packet), [packet |-> packet, ts |-> ts])

QueuePut(queue, packet, ts) ==
    IF \E i \in DOMAIN queue : queue[i].packet = packet
    THEN [i \in DOMAIN queue |->
             IF queue[i].packet = packet THEN [packet |-> packet, ts |-> ts]
             ELSE queue[i]]
    ELSE Append(queue, [packet |-> packet, ts |-> ts])

QueuePackets(queue) == {queue[i].packet : i \in DOMAIN queue}

\* async_connect: starts the worker; the session state is left as it is
async_connect ==
    /\ running' = TRUE
    /\ buffer' = <<>>                    \* the worker starts with its own bytearray()
    /\ UNCHANGED <<send_queue, discovered, device_states, wire, events,
                   delivered, scenario, sent, calls, probe, flipped, now, scriptVars, linkVars, publishVars>>

\* send_command(device, command, idn, payload); `calls` records the call
send_command(device, command, idn, payload) ==
    LET result == IF running THEN create_command_packet(device, command, idn, payload)
                  ELSE NonePacket
    IN  /\ send_queue' = IF result.status = "packet"
                         THEN QueuePut(send_queue, result.packet, now)
                         ELSE send_queue
        /\ calls' = Append(calls, [device |-> device, command |-> command, idn |-> idn,
                                   payload |-> payload, ran |-> running,
                                   result |-> result])
        /\ UNCHANGED <<running, discovered, device_states, buffer, wire, events,
                       delivered, scenario, sent, probe, flipped, now, scriptVars, linkVars, publishVars>>

-----------------------------------------------------------------------------
(* EzvilleRS485Client._process_buffer and one iteration of _message_loop   *)

\* the Python index of the first 0xF7 at or after index `from`, or -1
RECURSIVE find_f7(_, _)
find_f7(buf, from) ==
    IF from >= Len(buf) THEN -1
    ELSE IF At(buf, from) = F7 THEN from
    ELSE find_f7(buf, from + 1)

\* "Skip consecutive 0xF7 at start"
RECURSIVE skip_f7(_)
skip_f7(buf) ==
    IF Len(buf) > 1 /\ At(buf, 0) = F7 /\ At(buf, 1) = F7 THEN skip_f7(Tail(buf))
    ELSE buf

frame_is_state(buf) ==
    At(buf, 1) \in StateIds /\ At(buf, 3) = STATE_HEADER(At(buf, 1))[2]

\* variant that leaves the add byte out of a state frame
declared_length_short(buf) == IF frame_is_state(buf) THEN 5 + At(buf, 4) + 1 ELSE 8

\* the length the header declares
declared_length(buf) == IF frame_is_state(buf) THEN 5 + At(buf, 4) + 2 ELSE 8

frame_length_uncut(buf) == declared_length(buf)

\* variant that cuts one byte late, taking the next 0xF7 into the candidate
frame_length_cut_late(buf) ==
    LET next_f7 == find_f7(buf, 1)
    IN  IF next_f7 # -1 /\ next_f7 < declared_length(buf) THEN next_f7 + 1
        ELSE declared_length(buf)

\* "Adjust packet length if next F7 found before expected end"
frame_length(buf) ==
    LET next_f7 == find_f7(buf, 1)
    IN  IF next_f7 # -1 /\ next_f7 < declared_length(buf) THEN next_f7
        ELSE declared_length(buf)

\* variant that empties the buffer when a frame is still short of its length
RECURSIVE process_buffer_dropping(_, _)
process_buffer_dropping(buf, packets) ==
    IF Len(buf) = 0 THEN [buffer |-> buf, packets |-> packets]
    ELSE IF find_f7(buf, 0) = -1 THEN [buffer |-> <<>>, packets |-> packets]
    ELSE LET b == skip_f7(DropFirst(buf, find_f7(buf, 0)))
         IN  IF Len(b) < 4 THEN [buffer |-> b, packets |-> packets]
             ELSE IF frame_is_state(b) /\ Len(b) < 5
                  THEN [buffer |-> b, packets |-> packets]
             ELSE IF Len(b) < frame_length(b) THEN [buffer |-> <<>>, packets |-> packets]
             ELSE LET packet == SubSeq(b, 1, frame_length(b))
                  IN  process_buffer_dropping(DropFirst(b, frame_length(b)),
                                              IF verify_checksum(packet)
                                              THEN Append(packets, packet)
                                              ELSE packets)

\* the while loop: `packets` are those that passed the checksum, in order
RECURSIVE process_buffer(_, _)
process_buffer(buf, packets) ==
    IF Len(buf) = 0 THEN [buffer |-> buf, packets |-> packets]
    ELSE IF find_f7(buf, 0) = -1 THEN [buffer |-> <<>>, packets |-> packets]
    ELSE LET b == skip_f7(DropFirst(buf, find_f7(buf, 0)))
         IN  IF Len(b) < 4 THEN [buffer |-> b, packets |-> packets]
             ELSE IF frame_is_state(b) /\ Len(b) < 5
                  THEN [buffer |-> b, packets |-> packets]
             ELSE IF Len(b) < frame_length(b) THEN [buffer |-> b, packets |-> packets]
             ELSE LET packet == SubSeq(b, 1, frame_length(b))
                  IN  process_buffer(DropFirst(b, frame_length(b)),
                                     IF verify_checksum(packet)
                                     THEN Append(packets, packet)
                                     ELSE packets)

\* "Send after 100ms delay", the clock counting tenths of a second
DebounceTicks == 1

\* variant without the 100 ms test
DueAtOnce(queue) == queue

Due(queue) == SelectSeq(queue, LAMBDA e : now - e.ts > DebounceTicks)

\* variant without "del self._send_queue[packet]"
NotDue_keeping(queue) == queue

NotDue(queue) == SelectSeq(queue, LAMBDA e : ~(now - e.ts > DebounceTicks))

\* one iteration of the while loop of _message_loop on a serial or socket link;
\* `data` is what recv(128) returns
message_loop(data) ==
    LET got == IF data = <<>> THEN [buffer |-> buffer, packets |-> <<>>]   \* "if data:"
               ELSE process_buffer(buffer \o data, <<>>)
        st == process_packets([disc |-> discovered, states |-> device_states,
                               ev |-> events], got.packets)
    IN  /\ running
        /\ sent' = sent \o [i \in DOMAIN Due(send_queue) |-> Due(send_queue)[i].packet]
        /\ send_queue' = NotDue(send_queue)
        /\ buffer' = got.buffer
        /\ delivered' = delivered \o got.packets
        /\ discovered' = st.disc
        /\ device_states' = st.states
        /\ events' = st.ev
        /\ UNCHANGED <<running, scenario, calls, probe, flipped, now, scriptVars, linkVars, publishVars>>

\* the first k entries of the queue that are due, removed
RECURSIVE WithoutDue(_, _)
WithoutDue(queue, k) ==
    IF k = 0 \/ queue = <<>> THEN queue
    ELSE IF now - Head(queue).ts > DebounceTicks THEN WithoutDue(Tail(queue), k - 1)
    ELSE <<Head(queue)>> \o WithoutDue(Tail(queue), k)

\* variant that takes the packet out of the queue before sending it
message_loop_send_raises_dropping(k) ==
    /\ running
    /\ k \in DOMAIN Due(send_queue)
    /\ sent' = sent \o [i \in 1 .. k - 1 |-> Due(send_queue)[i].packet]
    /\ send_queue' = WithoutDue(send_queue, k)
    /\ raised' = Append(raised, [op |-> "send", packet |-> Due(send_queue)[k].packet])
    /\ UNCHANGED <<running, discovered, device_states, buffer, wire, events, delivered,
                   scenario, calls, probe, flipped, now, scriptVars, ack_queue,
                   stragglers, previous_mqtt_values, publishVars>>

\* an iteration in which _conn.send raises on the k-th packet that is due: the
\* packets before it are sent and deleted, the rest of the iteration is skipped
\* ("except Exception as err"; the sleeps are left to the clock)
message_loop_send_raises(k) ==
    /\ running
    /\ k \in DOMAIN Due(send_queue)
    /\ sent' = sent \o [i \in 1 .. k - 1 |-> Due(send_queue)[i].packet]
    /\ send_queue' = WithoutDue(send_queue, k - 1)
    /\ raised' = Append(raised, [op |-> "send", packet |-> Due(send_queue)[k].packet])
    /\ UNCHANGED <<running, discovered, device_states, buffer, wire, events, delivered,
                   scenario, calls, probe, flipped, now, scriptVars, ack_queue,
                   stragglers, previous_mqtt_values, publishVars>>

\* an iteration in which _conn.recv raises: "except Exception: pass"
message_loop_recv_raises ==
    /\ running
    /\ sent' = sent \o [i \in DOMAIN Due(send_queue) |-> Due(send_queue)[i].packet]
    /\ send_queue' = NotDue(send_queue)
    /\ raised' = Append(raised, [op |-> "recv", packet |-> <<>>])
    /\ UNCHANGED <<running, discovered, device_states, buffer, wire, events, delivered,
                   scenario, calls, probe, flipped, now, scriptVars, ack_queue,
                   stragglers, previous_mqtt_values, publishVars>>

-----------------------------------------------------------------------------
(* The encoder under a caller that addresses one (device, command)         *)

MaxCalls == 2

CommandNames(device) ==
    IF device \in DOMAIN RS485_DEVICE THEN DOMAIN RS485_DEVICE[device] ELSE {}

Subjects ==
    {<<d, c>> : d \in DeviceTypes, c \in {"state", "last", "power", "mode", "target",
        "away", "speed", "close", "call", "ring", "talk", "open", "cancel", "bogus"}}
    \cup {<<"sprinkler", "power">>}

CodecSubjects == {sc \in Subjects : sc[2] \in CommandNames(sc[1]) \cup {"bogus", "power"}}

Idns == {<<>>, <<1>>, <<1, 1>>, <<1, 2>>}

Payloads == {PyBool(TRUE), PyBool(FALSE), PyInt(25), PyStr("heat")}

CodecInit ==
    /\ running = FALSE
    /\ send_queue = <<>>
    /\ discovered = {}
    /\ device_states = <<>>
    /\ buffer = <<>>
    /\ wire = <<>>
    /\ events = <<>>
    /\ delivered = <<>>
    /\ scenario \in CodecSubjects
    /\ sent = <<>>
    /\ calls = <<>>
    /\ probe = <<>>
    /\ flipped = <<>>
    /\ now = 0
    /\ ScriptStart
    /\ LinkStart
    /\ PublishStart

CodecConnect == ~running /\ async_connect

CodecSend ==
    /\ Len(calls) < MaxCalls
    /\ \E idn \in Idns, payload \in Payloads :
           send_command(scenario[1], scenario[2], idn, payload)

CodecNext == CodecConnect \/ CodecSend

SpecCodec == CodecInit /\ [][CodecNext]_vars

PacketCalls == {i \in DOMAIN calls : calls[i].result.status = "packet"}

\* C1: every packet _create_command_packet returns is accepted by _verify_checksum
C1_EncoderRoundTrip ==
    \A i \in PacketCalls : verify_checksum(calls[i].result.packet)

\* C7: send_command("plug", "power", "1_2", payload) enqueues a packet that begins
\* F7 39 12 41 and whose byte 5 is 0x11 for payload true and 0x10 for payload false
C7_PlugLiteral ==
    \A i \in DOMAIN calls :
        (/\ calls[i].ran
         /\ calls[i].device = "plug" /\ calls[i].command = "power"
         /\ calls[i].idn = <<1, 2>> /\ calls[i].payload.t = "bool")
        => /\ calls[i].result.status = "packet"
           /\ calls[i].result.packet \in QueuePackets(send_queue)
           /\ SubSeq(calls[i].result.packet, 1, 4) = <<247, 57, 18, 65>>
           /\ calls[i].result.packet[6] = (IF calls[i].payload.b THEN 17 ELSE 16)

\* two calls that ran with the same device, command and payload, each with an
\* idn of its own, and each given a packet
OtherInstance(i, j) ==
    /\ calls[i].ran /\ calls[j].ran
    /\ calls[i].device = calls[j].device
    /\ calls[i].command = calls[j].command
    /\ calls[i].payload = calls[j].payload
    /\ calls[i].idn # <<>> /\ calls[j].idn # <<>>
    /\ calls[i].idn # calls[j].idn
    /\ calls[i].result.status = "packet"
    /\ calls[j].result.status = "packet"

\* C35: two requests with the same device and command and different idn values
\* get different packets, which are two entries of _send_queue
C35_InstancesDiffer ==
    \A i, j \in DOMAIN calls :
        OtherInstance(i, j)
        => /\ calls[i].result.packet # calls[j].result.packet
           /\ {calls[i].result.packet, calls[j].result.packet}
                  \subseteq QueuePackets(send_queue)

\* C8: for a boolean payload the packet for true differs from the packet for false
TakesBool(device, command) ==
    /\ device \in DOMAIN RS485_DEVICE
    /\ command \in DOMAIN RS485_DEVICE[device]
    /\ "ack" \in DOMAIN RS485_DEVICE[device][command]
    /\ device = "thermostat" => command = "away"

C8_BoolPayloadObservable ==
    \A i, j \in PacketCalls :
        (/\ TakesBool(calls[i].device, calls[i].command)
         /\ calls[i].idn = calls[j].idn
         /\ calls[i].payload = PyBool(TRUE)
         /\ calls[j].payload = PyBool(FALSE))
        => calls[i].result.packet # calls[j].result.packet

\* a named command of a device type: an entry carrying id, cmd and ack
NamedCommand(device, command) ==
    /\ command \in DOMAIN RS485_DEVICE[device]
    /\ {"id", "cmd", "ack"} \subseteq DOMAIN RS485_DEVICE[device][command]

\* C14: for a device type of RS485_DEVICE and a name that is not one of its
\* named commands, the descriptor keys "state" and "last" included,
\* _create_command_packet returns no packet and does not raise
C14_CommandNameValidated ==
    \A i \in DOMAIN calls :
        (/\ calls[i].ran
         /\ calls[i].device \in DOMAIN RS485_DEVICE
         /\ ~NamedCommand(calls[i].device, calls[i].command))
        => calls[i].result.status = "none"

-----------------------------------------------------------------------------
(* The verifier under single-bit errors                                    *)

MaxBody == 3

BodyBytes == {0, 1, 128, 247, 255}

RECURSIVE SeqsUpTo(_, _)
SeqsUpTo(S, n) ==
    IF n = 0 THEN {<<>>}
    ELSE LET shorter == SeqsUpTo(S, n - 1)
         IN  shorter \cup {Append(s, x) : s \in {t \in shorter : Len(t) = n - 1}, x \in S}

\* the body followed by the two trailer bytes the bus carries
Sealed(body) ==
    LET c == XorFold(body)
    IN  body \o <<c, (Sum(body) + c) % 256>>

FlipBit(packet, i, k) == [packet EXCEPT ![i] = BitXor(packet[i], Pow2(k))]

FlipInit ==
    /\ running = FALSE
    /\ send_queue = <<>>
    /\ discovered = {}
    /\ device_states = <<>>
    /\ buffer = <<>>
    /\ wire = <<>>
    /\ events = <<>>
    /\ delivered = <<>>
    /\ scenario = <<>>
    /\ sent = <<>>
    /\ calls = <<>>
    /\ probe \in {p \in {Sealed(b) : b \in SeqsUpTo(BodyBytes, MaxBody)} :
                     verify_checksum(p)}
    /\ flipped = <<>>
    /\ now = 0
    /\ ScriptStart
    /\ LinkStart
    /\ PublishStart

FlipOne ==
    /\ flipped = <<>>
    /\ \E i \in DOMAIN probe, k \in 0 .. 7 : flipped' = FlipBit(probe, i, k)
    /\ UNCHANGED <<running, send_queue, discovered, device_states, buffer, wire,
                   events, delivered, scenario, sent, calls, probe, now, scriptVars, linkVars, publishVars>>

FlipNext == FlipOne

SpecFlip == FlipInit /\ [][FlipNext]_vars

\* C2: a packet _verify_checksum accepts is rejected once any one bit of it is flipped
C2_SingleBitRejected ==
    (verify_checksum(probe) /\ flipped # <<>>) => ~verify_checksum(flipped)

\* a flip in the add byte of a 5-byte accepted packet has been tried
C2_Witness ==
    /\ Len(probe) = 5 /\ verify_checksum(probe)
    /\ flipped # <<>> /\ flipped[5] # probe[5]

-----------------------------------------------------------------------------
(* The frame reader fed a byte stream in chunks: garbage, then one packet  *)

MaxGarbage == 3

GarbageBytes == {0, 14, 129, 247}

\* packets that pass the checksum: 8-byte packets that are no state report and
\* one state report
StreamPackets ==
    {Sealed(<<247, 18, 1, 129, 2, 0, 1>>),  \* gas state, 9 bytes
     Sealed(<<247, 14, 1, 65, 3, 1>>),      \* light power command
     Sealed(<<247, 14, 1, 193, 3, 1>>),     \* its acknowledgement
     Sealed(<<247, 85, 1, 2, 3, 4>>),       \* a device no table lists
     Sealed(<<247, 129, 1, 2, 3, 4>>),
     Sealed(<<247, 14, 1, 65, 247, 0>>),    \* a payload byte of 0xF7
     Sealed(<<247, 14, 1, 65, 78, 0>>)}     \* a checksum byte of 0xF7

StreamInit ==
    /\ running = FALSE
    /\ send_queue = <<>>
    /\ discovered = {}
    /\ device_states = <<>>
    /\ buffer = <<>>
    /\ scenario \in {[garbage |-> g, v |-> v] :
                        g \in SeqsUpTo(GarbageBytes, MaxGarbage), v \in StreamPackets}
    /\ wire = scenario.garbage \o scenario.v
    /\ events = <<>>
    /\ delivered = <<>>
    /\ sent = <<>>
    /\ calls = <<>>
    /\ probe = <<>>
    /\ flipped = <<>>
    /\ now = 0
    /\ ScriptStart
    /\ LinkStart
    /\ PublishStart

StreamConnect == ~running /\ async_connect

\* recv hands over the next k bytes of the stream
StreamRecv ==
    \E k \in 1 .. Len(wire) :
        /\ message_loop(TakeFirst(wire, k))
        /\ wire' = DropFirst(wire, k)

StreamNext == StreamConnect \/ StreamRecv

SpecStream == StreamInit /\ [][StreamNext]_vars

HasF7(s) == \E i \in DOMAIN s : s[i] = F7

\* C3 as stated: garbage followed by a valid 8-byte non-state packet v, split into
\* chunks in any way, makes the reader hand on exactly the one packet v
C3_FramingResync ==
    (wire = <<>> /\ verify_checksum(scenario.v) /\ ~is_state_packet(scenario.v))
        => delivered = <<scenario.v>>

\* C3: when v holds no 0xF7 after its first byte, and the garbage holds no 0xF7 or
\* is shorter than 4 bytes, every split into chunks makes the reader hand on
\* exactly the one packet v
C3_FramingResyncNoInnerF7 ==
    (/\ wire = <<>>
     /\ verify_checksum(scenario.v) /\ ~is_state_packet(scenario.v)
     /\ ~HasF7(Tail(scenario.v))
     /\ (~HasF7(scenario.garbage) \/ Len(scenario.garbage) < 4))
        => delivered = <<scenario.v>>

\* all of a stream whose garbage carries a 0xF7 has been read and v handed on
C3_Witness ==
    /\ wire = <<>>
    /\ Len(scenario.garbage) = 3 /\ scenario.garbage[1] = F7 /\ scenario.garbage[2] = 14
    /\ ~HasF7(Tail(scenario.v))
    /\ delivered = <<scenario.v>>

\* the bytes recv has handed over so far
Received ==
    TakeFirst(scenario.garbage \o scenario.v,
              Len(scenario.garbage \o scenario.v) - Len(wire))

\* fewer bytes than the frame needs: fewer than 4, a state header without its
\* length byte, or fewer than the computed frame length
Incomplete(frame) ==
    \/ Len(frame) < 4
    \/ frame_is_state(frame) /\ Len(frame) < 5
    \/ Len(frame) < frame_length(frame)

\* the received bytes from position p onward
From(p) == SubSeq(Received, p, Len(Received))

\* the positions of the received bytes where a frame that is still incomplete
\* begins: a 0xF7 that no 0xF7 follows directly
Anchors ==
    {p \in DOMAIN Received :
        /\ Received[p] = F7
        /\ (p < Len(Received) => Received[p + 1] # F7)
        /\ Incomplete(From(p))}

\* C18: when _process_buffer returns for want of bytes, the buffer is exactly
\* the received bytes from the anchoring 0xF7 onward, unchanged and in order
\* (and when no received frame is incomplete nothing is left in it)
C18_IncompleteFrameKept ==
    running =>
        buffer = IF Anchors = {} THEN <<>>
                 ELSE From(CHOOSE p \in Anchors : \A q \in Anchors : p <= q)

\* the reader has returned with six of the nine bytes of a state report, after garbage
C18_Witness ==
    /\ running
    /\ scenario.garbage = <<0, 14>>
    /\ scenario.v = Sealed(<<247, 18, 1, 129, 2, 0, 1>>)
    /\ Len(wire) = 3
    /\ buffer = <<247, 18, 1, 129, 2, 0>>

-----------------------------------------------------------------------------
(* The frame reader given one buffer: which bytes it takes as the packet   *)

MaxFrameData == 3
FrameDataBytes == {0, 1, 2}

FrameHeads == {<<247, h1, 1, h3>> : h1 \in {14, 85}, h3 \in {129, 65}}

FrameData == {d \in SeqsUpTo(FrameDataBytes, MaxFrameData) : Len(d) >= 1}

\* what follows the frame in the same read
FrameTails == {<<>>, <<0>>, <<247, 14>>}

\* sealed frames with something after them, and frames without a trailer
\* the first n bytes of a frame whose header promises more than follows
BogusPrefixes == {SubSeq(h \o <<9, 0, 0>>, 1, n) : h \in FrameHeads, n \in 1 .. 7}

\* sealed frames with something after them, frames without a trailer, and
\* sealed frames behind a frame that was cut short
FrameInputs ==
    {Sealed(h \o d) \o t : h \in FrameHeads, d \in FrameData, t \in FrameTails}
        \cup {h \o d \o t : h \in FrameHeads, d \in FrameData, t \in FrameTails}
        \cup {pre \o Sealed(h \o d) \o t : pre \in BogusPrefixes, h \in FrameHeads,
                                            d \in FrameData, t \in FrameTails}

FrameInit ==
    /\ running = FALSE
    /\ send_queue = <<>>
    /\ discovered = {}
    /\ device_states = <<>>
    /\ buffer = <<>>
    /\ scenario \in FrameInputs
    /\ wire = scenario
    /\ events = <<>>
    /\ delivered = <<>>
    /\ sent = <<>>
    /\ calls = <<>>
    /\ probe = <<>>
    /\ flipped = <<>>
    /\ now = 0
    /\ ScriptStart
    /\ LinkStart
    /\ PublishStart

FrameConnect == ~running /\ async_connect

\* recv hands over the whole input at once
FrameRecv ==
    /\ wire # <<>>
    /\ message_loop(wire)
    /\ wire' = <<>>

FrameNext == FrameConnect \/ FrameRecv

SpecFrame == FrameInit /\ [][FrameNext]_vars

\* L: 5 + buffer[4] + 2 for a state device id with its state command byte, else 8
RuleLength(b) ==
    IF \E d \in DeviceTypes : RS485_DEVICE[d].state.id = b[2] /\ RS485_DEVICE[d].state.cmd = b[4]
    THEN 5 + b[5] + 2
    ELSE 8

RuleApplies(b) ==
    /\ Len(b) >= 5
    /\ b[1] = F7
    /\ Len(b) >= RuleLength(b)
    /\ \A i \in 2 .. RuleLength(b) : b[i] # F7

\* C25: from a buffer that starts with 0xF7, holds no other 0xF7 before the
\* frame end and holds at least L bytes, _process_buffer takes exactly the
\* first L bytes as the candidate packet (handed on when the checksum holds)
\* and goes on with the bytes after them
C25_FrameLengthRule ==
    (running /\ wire = <<>> /\ RuleApplies(scenario)) =>
        LET L == RuleLength(scenario)
            candidate == SubSeq(scenario, 1, L)
            rest == process_buffer(SubSeq(scenario, L + 1, Len(scenario)), <<>>)
        IN  /\ delivered = (IF verify_checksum(candidate) THEN <<candidate>> ELSE <<>>)
                                \o rest.packets
            /\ buffer = rest.buffer

\* a 9-byte state frame followed by the start of another was read
C25_Witness ==
    /\ running /\ wire = <<>>
    /\ scenario = Sealed(<<247, 14, 1, 129, 2, 1, 0>>) \o <<247, 14>>
    /\ delivered = <<Sealed(<<247, 14, 1, 129, 2, 1, 0>>)>>
    /\ buffer = <<247, 14>>

\* the Python-style index of the first 0xF7 of b after its first byte, 0 if none
NextF7(b) ==
    IF \E k \in 2 .. Len(b) : b[k] = F7
    THEN (CHOOSE k \in 2 .. Len(b) : b[k] = F7 /\ \A i \in 2 .. k - 1 : b[i] # F7) - 1
    ELSE 0

\* the frame that starts at the next 0xF7, when it is whole, valid and free of 0xF7
FollowingFrame(b) == SubSeq(b, NextF7(b) + 1, Len(b))

Swallowing(b) ==
    /\ Len(b) >= 5
    /\ b[1] = F7
    /\ NextF7(b) > 0
    /\ RuleLength(b) > NextF7(b)
    /\ RuleApplies(FollowingFrame(b))
    /\ verify_checksum(SubSeq(FollowingFrame(b), 1, RuleLength(FollowingFrame(b))))

\* C26: when the header at the start of the buffer declares a length that
\* reaches past a later 0xF7, the complete checksum-valid frame that starts at
\* that 0xF7 is still handed to _process_packet
C26_NextFrameNotSwallowed ==
    (running /\ wire = <<>> /\ Swallowing(scenario)) =>
        \E i \in DOMAIN delivered :
            delivered[i] = SubSeq(FollowingFrame(scenario), 1,
                                  RuleLength(FollowingFrame(scenario)))

\* a state header promising 16 bytes, five bytes in, followed by a valid frame
C26_Witness ==
    /\ running /\ wire = <<>>
    /\ scenario = <<247, 14, 1, 129, 9>> \o Sealed(<<247, 85, 1, 65, 0, 1>>)
    /\ Swallowing(scenario)
    /\ delivered = <<Sealed(<<247, 85, 1, 65, 0, 1>>)>>
    /\ buffer = <<>>

-----------------------------------------------------------------------------
(* The decoder fed whole packets from the bus                              *)

MaxPackets == 3

LightExample == Sealed(<<247, 14, 17, 129, 3, 1, 0, 0>>)

BusPackets ==
    {LightExample,
     Sealed(<<247, 14, 17, 129, 3, 0, 1, 0>>),
     Sealed(<<247, 14, 18, 129, 2, 0, 1>>),
     Sealed(<<247, 14, 33, 129, 2, 0, 1>>),
     Sealed(<<247, 57, 17, 129, 6, 16, 1, 35, 0, 0, 0>>),
     Sealed(<<247, 54, 1, 129, 9, 0, 1, 1, 24, 24, 0, 0, 0, 0>>),
     Sealed(<<247, 54, 31, 129, 13, 0, 1, 0, 0, 0, 0, 0, 0, 25, 24, 0, 0, 0>>),
     Sealed(<<247, 50, 1, 129, 3, 1, 2, 1>>),
     Sealed(<<247, 18, 1, 129, 2, 0, 1>>),
     Sealed(<<247, 48, 1, 129, 3, 0, 18, 52>>),
     Sealed(<<247, 14, 17, 1, 0>>),
     Sealed(<<247, 14, 17, 193, 3, 1>>),
     Sealed(<<247, 54, 17, 195, 1, 1>>),
     Sealed(<<247, 85, 1, 2, 3, 4>>),
     Sealed(<<247, 85, 1, 2, 3, 5>>)}

DecodeInit ==
    /\ running = FALSE
    /\ send_queue = <<>>
    /\ discovered = {}
    /\ device_states = <<>>
    /\ buffer = <<>>
    /\ wire = <<>>
    /\ events = <<>>
    /\ delivered = <<>>
    /\ scenario = <<>>
    /\ sent = <<>>
    /\ calls = <<>>
    /\ probe = <<>>
    /\ flipped = <<>>
    /\ now = 0
    /\ ScriptStart
    /\ LinkStart
    /\ PublishStart

DecodeConnect == ~running /\ async_connect

\* recv hands over one whole packet
DecodeRecv ==
    /\ Len(delivered) < MaxPackets
    /\ \E p \in BusPackets : message_loop(p)
    /\ UNCHANGED wire

DecodeNext == DecodeConnect \/ DecodeRecv

SpecDecode == DecodeInit /\ [][DecodeNext]_vars

StateEvents(key) == {i \in DOMAIN events : events[i].kind = "state" /\ events[i].key = key}
DiscoverEvents(key) ==
    {i \in DOMAIN events : events[i].kind = "discover" /\ events[i].key = key}
EventKeys == {events[i].key : i \in DOMAIN events}

PowerReported(key, on) ==
    /\ Cardinality(StateEvents(key)) = 1
    /\ \A i \in StateEvents(key) :
           /\ events[i].state = [power |-> on]
           /\ \E j \in DiscoverEvents(key) : j < i

IsUnknown(packet) == Len(packet) >= 4 /\ known_device_type(At(packet, 1)) = "unknown"
UnknownKey(packet) == "unknown_" \o HexOf(SubSeq(packet, 1, 4))
SameSignature(i) ==
    {j \in DOMAIN delivered : SubSeq(delivered[j], 1, 4) = SubSeq(delivered[i], 1, 4)}
\* positions where an unknown packet differs from the last one of its signature
UnknownChanges(i) ==
    {j \in SameSignature(i) :
        \A k \in SameSignature(i) :
            (k < j /\ \A m \in SameSignature(i) : ~(k < m /\ m < j))
                => delivered[k] # delivered[j]}

\* the session as the handlers see it
Session == [disc |-> discovered, states |-> device_states, ev |-> events]

\* the device type whose state id is the packet's byte 1, "none" if there is none
DeviceOf(packet) ==
    IF \E d \in DeviceTypes : RS485_DEVICE[d].state.id = packet[2]
    THEN CHOOSE d \in DeviceTypes : RS485_DEVICE[d].state.id = packet[2]
    ELSE "none"

\* the one handler the packet belongs to, and what that handler does with it
RoutedTo(packet) ==
    IF DeviceOf(packet) = "none" THEN handle_unknown_device(Session, packet)
    ELSE IF packet[4] = RS485_DEVICE[DeviceOf(packet)].state.cmd
    THEN process_state_packet(Session, DeviceOf(packet), packet)
    ELSE handle_device_cmd_packet(Session, DeviceOf(packet), packet)

\* C27: every packet of at least 4 bytes given to _process_packet goes to
\* exactly one handler: the state decoder when byte 1 is a known device id and
\* byte 3 its state command, the command-sensor handler for a known id with any
\* other byte 3, the unknown-device handler otherwise; the session afterwards
\* is what that one handler makes of it
C27_ClassificationTotal ==
    [][(delivered' # delivered /\ Len(delivered'[Len(delivered')]) >= 4)
           => [disc |-> discovered', states |-> device_states', ev |-> events']
                  = RoutedTo(delivered'[Len(delivered')])]_vars

\* a state packet, a command packet and an unknown packet were each handled
C27_Witness ==
    /\ delivered = <<Sealed(<<247, 18, 1, 129, 2, 0, 1>>),
                     Sealed(<<247, 14, 17, 193, 3, 1>>),
                     Sealed(<<247, 85, 1, 2, 3, 4>>)>>
    /\ {events[i].type : i \in DOMAIN events} = {"gas", "light_cmd", "unknown"}

\* a packet of a known device whose byte 3 is 0x01
IsStateQuery(packet) ==
    Len(packet) >= 4 /\ DeviceOf(packet) # "none" /\ packet[4] = 1

\* C28: a state-query packet (known device id, byte 3 = 0x01) causes no
\* discovery, state or command-sensor callback and adds nothing to
\* _discovered_devices or _device_states
C28_StateQueryNotSurfaced ==
    [][(delivered' # delivered /\ IsStateQuery(delivered'[Len(delivered')]))
           => /\ events' = events
              /\ discovered' = discovered
              /\ device_states' = device_states]_vars

\* a state query arrived after a state packet and left the session as it was
C28_Witness ==
    /\ delivered = <<LightExample, Sealed(<<247, 14, 17, 1, 0>>)>>
    /\ IsStateQuery(delivered[2])
    /\ \A i \in DOMAIN events : events[i].type = "light"
    /\ events # <<>>

\* the keys a state packet is filed under, in the order of its entries
KeysAssigned(packet) ==
    LET st == process_packet([disc |-> {}, states |-> <<>>, ev |-> <<>>], packet)
        found == SelectSeq(st.ev, LAMBDA e : e.kind = "discover")
    IN  [n \in DOMAIN found |-> found[n].key]

KeySet(packet) == {KeysAssigned(packet)[n] : n \in DOMAIN KeysAssigned(packet)}

\* C29: two state packets of one device type with the same bytes 1..3 give
\* the entry at each position the same identity key whatever the payload, and
\* two state packets that differ in byte 2 never share an identity key
C29_IdentityFromHeader ==
    \A i, j \in DOMAIN delivered :
        LET p == delivered[i]
            q == delivered[j]
        IN  (is_state_packet(p) /\ is_state_packet(q) /\ At(p, 1) = At(q, 1))
                => /\ (At(p, 2) = At(q, 2))
                        => \A n \in DOMAIN KeysAssigned(p) \cap DOMAIN KeysAssigned(q) :
                               KeysAssigned(p)[n] = KeysAssigned(q)[n]
                   /\ (At(p, 2) # At(q, 2)) => KeySet(p) \cap KeySet(q) = {}

\* C39: every key of _device_states is a member of _discovered_devices
C39_StoredImpliesDiscovered == DOMAIN device_states \subseteq discovered

\* states are stored for several identities, and a command sensor is discovered
\* without a stored state
C39_Witness ==
    /\ Cardinality(DOMAIN device_states) >= 2
    /\ discovered # DOMAIN device_states

\* C12: a packet whose byte 1 is no device id is reported under the key
\* unknown_<8 lowercase hex characters of its first four bytes>, discovered
\* exactly once, and its state is reported once per change of the bytes seen
\* under that signature, so the same bytes twice give one discovery and one
\* state callback
C12_UnknownDevicePath ==
    \A i \in DOMAIN delivered :
        IsUnknown(delivered[i]) =>
            LET key == UnknownKey(delivered[i])
            IN  /\ key \in discovered
                /\ Cardinality(DiscoverEvents(key)) = 1
                /\ Cardinality(StateEvents(key)) = Cardinality(UnknownChanges(i))
                /\ \A e \in DiscoverEvents(key) \cup StateEvents(key) :
                       /\ events[e].type = "unknown"
                       /\ events[e].id = HexOf(SubSeq(delivered[i], 1, 4))
                /\ (\A j \in SameSignature(i) : delivered[j] = delivered[i])
                       => Cardinality(StateEvents(key)) = 1

\* the same unknown packet has been processed twice
C12_Witness ==
    /\ Len(delivered) = 2
    /\ delivered[1] = Sealed(<<247, 85, 1, 2, 3, 4>>)
    /\ delivered[2] = delivered[1]
    /\ "unknown_f7550102" \in discovered

\* C4: the light state packet F7 0E 11 81 03 01 00 00 given to a fresh client
\* reports exactly light_1_1 on, light_1_2 off and light_1_3 off, each after its
\* discovery
C4_LightExampleDecoded ==
    delivered = <<LightExample>> =>
        /\ {events[i].key : i \in {j \in DOMAIN events : events[j].kind = "state"}}
               = {"light_1_1", "light_1_2", "light_1_3"}
        /\ PowerReported("light_1_1", TRUE)
        /\ PowerReported("light_1_2", FALSE)
        /\ PowerReported("light_1_3", FALSE)

\* C5: a state packet of a known device given twice in a row to a fresh client
\* makes the state callback of each identity it decodes to run once in total
C5_RepeatedPacketReportedOnce ==
    (/\ Len(delivered) = 2 /\ delivered[1] = delivered[2]
     /\ is_state_packet(delivered[1]))
        => \A key \in discovered : Cardinality(StateEvents(key)) = 1

\* C6: each identity key is announced by the discovery callback exactly once, on
\* the first packet that yields it and ahead of that identity's state callbacks
C6_DiscoveredOnceAndFirst ==
    /\ EventKeys = discovered
    /\ \A key \in EventKeys :
           /\ Cardinality(DiscoverEvents(key)) = 1
           /\ \A i \in DiscoverEvents(key) :
                  \A j \in DOMAIN events : events[j].key = key => i <= j

\* an identity has had its state callback run twice after its one discovery
C6_Witness ==
    \E key \in discovered :
        /\ Cardinality(DiscoverEvents(key)) = 1
        /\ Cardinality(StateEvents(key)) >= 2

-----------------------------------------------------------------------------
(* ezville_wallpad.py: the tables of the stand-alone script                *)

script_RS485_DEVICE ==
    [light |->
        [state |-> [id |-> 14, cmd |-> 129], last |-> <<>>,
         power |-> [id |-> 14, cmd |-> 65, ack |-> 193]],
     plug |->
        [state |-> [id |-> 57, cmd |-> 129], last |-> <<>>,
         power |-> [id |-> 57, cmd |-> 65, ack |-> 193]],
     thermostat |->
        [state |-> [id |-> 54, cmd |-> 129], last |-> <<>>,
         mode |-> [id |-> 54, cmd |-> 67, ack |-> 195],
         target |-> [id |-> 54, cmd |-> 68, ack |-> 196],
         away |-> [id |-> 54, cmd |-> 70, ack |-> 198]],
     fan |->
        [state |-> [id |-> 50, cmd |-> 129], last |-> <<>>,
         power |-> [id |-> 50, cmd |-> 65, ack |-> 193],
         speed |-> [id |-> 50, cmd |-> 66, ack |-> 194],
         mode |-> [id |-> 50, cmd |-> 67, ack |-> 195]],
     gas |->
        [state |-> [id |-> 18, cmd |-> 129], last |-> <<>>,
         close |-> [id |-> 18, cmd |-> 65, ack |-> 193]],
     energy |->
        [state |-> [id |-> 48, cmd |-> 129], last |-> <<>>],
     elevator |->
        [state |-> [id |-> 51, cmd |-> 129], last |-> <<>>,
         power |-> [id |-> 51, cmd |-> 65, ack |-> 193],
         call |-> [id |-> 51, cmd |-> 67, ack |-> 195]],
     doorbell |->
        [state |-> [id |-> 64, cmd |-> 130], last |-> <<>>,
         ring |-> [id |-> 64, cmd |-> 147, ack |-> 195],
         talk |-> [id |-> 64, cmd |-> 18, ack |-> 194],
         open |-> [id |-> 64, cmd |-> 34, ack |-> 194],
         cancel |-> [id |-> 64, cmd |-> 17, ack |-> 193]]]

\* the order in which each device's dict lists its commands
script_command_order ==
    [light |-> <<"state", "last", "power">>,
     plug |-> <<"state", "last", "power">>,
     thermostat |-> <<"state", "last", "mode", "target", "away">>,
     fan |-> <<"state", "last", "power", "speed", "mode">>,
     gas |-> <<"state", "last", "close">>,
     energy |-> <<"state", "last">>,
     elevator |-> <<"state", "last", "power", "call">>,
     doorbell |-> <<"state", "last", "ring", "talk", "open", "cancel">>]

script_has(device, cmd, field) ==
    /\ device \in DOMAIN script_RS485_DEVICE
    /\ cmd \in DOMAIN script_RS485_DEVICE[device]
    /\ field \in DOMAIN script_RS485_DEVICE[device][cmd]

\* STATE_HEADER: id -> (device, state cmd)
script_state_ids == {script_RS485_DEVICE[d].state.id : d \in DeviceTypes}

script_STATE_HEADER(id) ==
    LET d == CHOOSE x \in DeviceTypes : script_RS485_DEVICE[x].state.id = id
    IN  <<d, script_RS485_DEVICE[d].state.cmd>>

\* the commands of a device that carry an ack, in dict order
acked_commands(device) ==
    SelectSeq(script_command_order[device], LAMBDA c : script_has(device, c, "ack"))

\* ACK_HEADER: a dict comprehension keyed by the id alone, so of the commands of
\* one id the one listed last gives the entry (device, ack)
script_ack_ids ==
    UNION {{script_RS485_DEVICE[d][acked_commands(d)[i]].id :
               i \in DOMAIN acked_commands(d)} : d \in DeviceTypes}

script_ACK_HEADER(id) ==
    LET d == CHOOSE x \in DeviceTypes :
                 \E i \in DOMAIN acked_commands(x) :
                     script_RS485_DEVICE[x][acked_commands(x)[i]].id = id
        cs == SelectSeq(acked_commands(d),
                        LAMBDA c : script_RS485_DEVICE[d][c].id = id)
    IN  <<d, script_RS485_DEVICE[d][cs[Len(cs)]].ack>>

\* ACK_MAP[id][cmd]: the registered ack, or the empty dict the defaultdict makes (-1)
ACK_MAP(id, cmd) ==
    LET hits == {<<d, c>> \in {<<x, y>> : x \in DeviceTypes,
                                 y \in {"power", "mode", "target", "away", "speed", "close",
                                        "call", "ring", "talk", "open", "cancel"}} :
                    /\ script_has(d, c, "ack")
                    /\ script_RS485_DEVICE[d][c].id = id
                    /\ script_RS485_DEVICE[d][c].cmd = cmd}
    IN  IF hits = {} THEN -1
        ELSE LET h == CHOOSE x \in hits : TRUE
             IN  script_RS485_DEVICE[h[1]][h[2]].ack

-----------------------------------------------------------------------------
(* ezville_wallpad.py: command requests, the receive loop and the sender   *)

\* serial_generate_checksum: XOR of packet[:-1], add = (sum(packet) + checksum) & 0xFF
serial_generate_checksum(packet) ==
    LET checksum == XorFold(DropLast(packet, 1))
    IN  <<checksum, (Sum(packet) + checksum) % 256>>

\* packet[-2], packet[-1] = serial_generate_checksum(packet)
with_checksum(packet) ==
    LET pair == serial_generate_checksum(packet)
    IN  [packet EXCEPT ![Len(packet) - 1] = pair[1], ![Len(packet)] = pair[2]]

\* serial_verify_checksum: XOR of packet[:-1] is 0 and sum(packet[:-1]) & 0xFF is packet[-1]
serial_verify_checksum(packet) ==
    /\ XorFold(DropLast(packet, 1)) = 0
    /\ Sum(DropLast(packet, 1)) % 256 = packet[Len(packet)]

\* int(idn.split("_")[0]) << 4 | int(idn.split("_")[1])
script_num(idn) == BitOr(idn[1] * 16, idn[2])

\* mqtt_device: the packet put into serial_queue, or <<>> when none is
mqtt_device(device, idn, cmd, payload) ==
    IF device \notin DOMAIN script_RS485_DEVICE THEN <<>>
    ELSE IF cmd \notin DOMAIN script_RS485_DEVICE[device] THEN <<>>
    ELSE IF payload = "" THEN <<>>
    ELSE IF ~script_has(device, cmd, "id") THEN <<>>         \* "last": KeyError
    ELSE LET code == script_RS485_DEVICE[device][cmd]
         IN  CASE device = "light" ->
                      IF Len(idn) < 3 \/ script_num(idn) > 255 THEN <<>>
                      ELSE with_checksum(<<F7, code.id, script_num(idn), code.cmd, 3, idn[3],
                                           IF payload = "ON" THEN 1 ELSE 0, 0, 0, 0>>)
               [] device = "plug" ->
                      IF Len(idn) < 2 \/ script_num(idn) > 255 THEN <<>>
                      ELSE with_checksum(<<F7, code.id, script_num(idn), code.cmd, 1,
                                           IF payload = "ON" THEN 17 ELSE 16, 0, 0>>)
               [] device = "thermostat" ->
                      IF Len(idn) < 2 \/ script_num(idn) > 255 THEN <<>>
                      ELSE with_checksum(<<F7, code.id, script_num(idn), code.cmd, 1,
                                           IF payload = "heat" THEN 1 ELSE 0, 0, 0>>)
               [] device = "fan" ->
                      with_checksum(<<F7, code.id, 1, code.cmd, 1,
                                      IF payload \in {"1", "ON", "bypass"} THEN 1
                                      ELSE IF payload = "2" THEN 2
                                      ELSE IF payload \in {"3", "heat"} THEN 3
                                      ELSE 0, 0, 0>>)
               [] device = "gas" ->
                      with_checksum(<<F7, code.id, 1, code.cmd, 1, 0, 0, 0>>)
               [] device = "doorbell" ->
                      IF code.cmd \in {147, 18, 34, 17}
                      THEN with_checksum(<<F7, code.id, 1, code.cmd,
                                           IF code.cmd = 147 THEN 1 ELSE 0, 0, 0, 0>>)
                      ELSE <<>>
               [] OTHER -> <<>>

QueuePop(queue, packet) == SelectSeq(queue, LAMBDA e : e.packet # packet)

AckPut(acks, header, cmd) ==
    [h \in DOMAIN acks \cup {header} |-> IF h = header THEN cmd ELSE acks[h]]

AckPop(acks, header) == [h \in DOMAIN acks \ {header} |-> acks[h]]

\* the 4 header bytes; int.from_bytes(ack, "big") and packet[0] << 24 | ... | packet[3]
\* name the same number
Header4(packet) == SubSeq(packet, 1, 4)

\* options: seconds after which a command is given up
max_retry == 4

RetryWarn == 3

\* variant that leaves the ack entry behind when the retry time is over
serial_send_command_keeping_ack(queue, acks) ==
    LET cmd == queue[1].packet
        a == ACK_MAP(At(cmd, 1), At(cmd, 3))
        ack == <<At(cmd, 0), At(cmd, 1), At(cmd, 2), a>>
        elapsed == now - queue[1].ts
    IN  IF a = -1 THEN [raised |-> TRUE, queue |-> queue, acks |-> acks]
        ELSE IF elapsed > max_retry
             THEN [raised |-> FALSE, queue |-> QueuePop(queue, cmd), acks |-> acks]
        ELSE IF elapsed > RetryWarn
             THEN [raised |-> FALSE, queue |-> queue, acks |-> AckPut(acks, ack, cmd)]
        ELSE IF a = 0
             THEN [raised |-> FALSE, queue |-> QueuePop(queue, cmd), acks |-> AckPop(acks, ack)]
        ELSE [raised |-> FALSE, queue |-> queue, acks |-> AckPut(acks, ack, cmd)]

\* serial_send_command after conn.send(cmd): what becomes of the queue and of the acks
serial_send_command(queue, acks) ==
    LET cmd == queue[1].packet
        a == ACK_MAP(At(cmd, 1), At(cmd, 3))
        ack == <<At(cmd, 0), At(cmd, 1), At(cmd, 2), a>>
        elapsed == now - queue[1].ts
    IN  IF a = -1 THEN [raised |-> TRUE, queue |-> queue, acks |-> acks]   \* ack[3] = {}
        ELSE IF elapsed > max_retry
             THEN [raised |-> FALSE, queue |-> QueuePop(queue, cmd), acks |-> AckPop(acks, ack)]
        ELSE IF elapsed > RetryWarn
             THEN [raised |-> FALSE, queue |-> queue, acks |-> AckPut(acks, ack, cmd)]
        ELSE IF a = 0
             THEN [raised |-> FALSE, queue |-> QueuePop(queue, cmd), acks |-> AckPop(acks, ack)]
        ELSE [raised |-> FALSE, queue |-> queue, acks |-> AckPut(acks, ack, cmd)]

\* serial_ack_command
serial_ack_command(queue, acks, header) ==
    [queue |-> QueuePop(queue, acks[header]), acks |-> AckPop(acks, header)]

script_is_state(buf) ==
    /\ At(buf, 1) \in script_state_ids
    /\ At(buf, 3) = script_STATE_HEADER(At(buf, 1))[2]

script_is_ack(buf) ==
    /\ At(buf, 1) \in script_ack_ids
    /\ At(buf, 3) = script_ACK_HEADER(At(buf, 1))[2]

script_packet_length(buf) == IF script_is_state(buf) THEN 5 + At(buf, 4) + 2 ELSE 8

-----------------------------------------------------------------------------
(* ezville_wallpad.py: serial_new_device and serial_receive_state           *)

\* the script's publishing side as one value
Publishing ==
    [last |-> last, topics |-> last_topic_list, registered |-> registered_entities,
     published |-> published]

\* len(DISCOVERY_PAYLOAD[device])
discovery_payloads(device) == IF device \in {"plug", "energy"} THEN 2 ELSE 1

\* mqtt_discovery, once for each payload of the device
announce(pub, device, entity) ==
    [pub EXCEPT !.published =
         @ \o [i \in 1 .. discovery_payloads(device) |->
                  [kind |-> "config", topic |-> <<device, entity, ToString(i)>>,
                   value |-> ""]]]

\* "if entity_id not in registered_entities[device]"
RECURSIVE register_all(_, _, _)
register_all(pub, device, entities) ==
    IF entities = <<>> THEN pub
    ELSE register_all(
             IF <<device, Head(entities)>> \in pub.registered THEN pub
             ELSE [announce(pub, device, Head(entities))
                      EXCEPT !.registered = @ \cup {<<device, Head(entities)>>}],
             device, Tail(entities))

script_idn(packet) == At(packet, 1) * 256 + At(packet, 2)

script_light_entity(packet, light_no) ==
    ToString(At(packet, 2) % 16) \o "_" \o ToString(light_no)

script_plug_entity(packet, plug_no) ==
    ToString(At(packet, 2) \div 16) \o "_" \o ToString(plug_no)

\* int((int(packet[4]) - 5) / 2); below 5 the range is empty
script_room_count(packet) == IF At(packet, 4) >= 5 THEN (At(packet, 4) - 5) \div 2 ELSE 0

serial_new_device(pub, device, packet) ==
    CASE device = "light" ->
             register_all(pub, device,
                          [k \in 1 .. At(packet, 4) |-> script_light_entity(packet, k)])
      [] device = "plug" ->
             register_all(pub, device,
                          [k \in 1 .. At(packet, 4) \div 3 |-> script_plug_entity(packet, k)])
      [] device = "thermostat" ->
             register_all(pub, device,
                          [k \in 1 .. script_room_count(packet) |-> ToString(k)])
      [] OTHER -> announce(pub, device, ToString(script_idn(packet)))

\* "if last_topic_list.get(topic) != value: mqtt.publish(topic, value)"
publish_state(pub, topic, value) ==
    IF topic \in DOMAIN pub.topics /\ pub.topics[topic] = value THEN pub
    ELSE [pub EXCEPT !.topics = (topic :> value) @@ @,
                     !.published = Append(@, [kind |-> "state", topic |-> topic,
                                              value |-> value])]

RECURSIVE publish_all(_, _)
publish_all(pub, pairs) ==
    IF pairs = <<>> THEN pub
    ELSE publish_all(publish_state(pub, Head(pairs)[1], Head(pairs)[2]), Tail(pairs))

registered_first(pub, device, entity, packet) ==
    IF <<device, entity>> \in pub.registered THEN pub
    ELSE serial_new_device(pub, device, packet)

RECURSIVE script_light_loop(_, _, _)
script_light_loop(pub, packet, light_no) ==
    IF light_no > At(packet, 4) THEN pub
    ELSE LET entity == script_light_entity(packet, light_no)
         IN  script_light_loop(
                 publish_state(registered_first(pub, "light", entity, packet),
                               <<"light", entity, "power">>,
                               IF At(packet, 5 + light_no - 1) % 2 = 1 THEN "ON" ELSE "OFF"),
                 packet, light_no + 1)

\* the hex digits of the plug's current, written here in decimal
script_plug_current(packet, plug_no) ==
    ToString(BitOr(BitOr(At(packet, plug_no * 3 + 3) % 16, At(packet, plug_no * 3 + 4) * 16),
                   At(packet, plug_no * 3 + 5) \div 16))
        \o "." \o ToString(At(packet, plug_no * 3 + 5) % 16)

RECURSIVE script_plug_loop(_, _, _)
script_plug_loop(pub, packet, plug_no) ==
    IF plug_no > At(packet, 4) \div 3 THEN pub
    ELSE LET entity == script_plug_entity(packet, plug_no)
         IN  script_plug_loop(
                 publish_all(registered_first(pub, "plug", entity, packet),
                     <<<<<<"plug", entity, "power">>,
                         IF (At(packet, plug_no * 3 + 3) \div 16) % 2 = 1 THEN "ON" ELSE "OFF">>,
                       <<<<"plug", entity, "current">>,
                         script_plug_current(packet, plug_no)>>>>),
                 packet, plug_no + 1)

RECURSIVE script_thermostat_loop(_, _, _)
script_thermostat_loop(pub, packet, thermostat_id) ==
    IF thermostat_id > script_room_count(packet) THEN pub
    ELSE LET entity == ToString(thermostat_id)
             bit(b) == ((b % 32) \div Pow2(thermostat_id - 1)) % 2 = 1
         IN  script_thermostat_loop(
                 publish_all(registered_first(pub, "thermostat", entity, packet),
                     <<<<<<"thermostat", entity, "mode">>,
                         IF bit(At(packet, 6)) THEN "heat" ELSE "off">>,
                       <<<<"thermostat", entity, "away">>,
                         IF bit(At(packet, 7)) THEN "heat" ELSE "off">>,
                       <<<<"thermostat", entity, "target">>,
                         ToString(At(packet, 8 + thermostat_id * 2))>>,
                       <<<<"thermostat", entity, "current">>,
                         ToString(At(packet, 9 + thermostat_id * 2))>>>>),
                 packet, thermostat_id + 1)

\* the part of serial_receive_state after last[idn] = packet
script_publish(pub, device, packet) ==
    LET idn == ToString(script_idn(packet))
    IN  CASE device = "light" -> script_light_loop(pub, packet, 1)
          [] device = "plug" -> script_plug_loop(pub, packet, 1)
          [] device = "thermostat" -> script_thermostat_loop(pub, packet, 1)
          [] device = "fan" ->
                 publish_all(pub,
                     <<<<<<"fan", idn, "power">>,
                         IF At(packet, 6) % 2 = 1 THEN "ON" ELSE "OFF">>,
                       <<<<"fan", idn, "mode">>,
                         CASE At(packet, 8) % 4 = 1 -> "bypass"
                           [] At(packet, 8) % 4 = 3 -> "heat"
                           [] OTHER -> "unknown">>,
                       <<<<"fan", idn, "speed">>, ToString(At(packet, 7))>>>>)
          [] device = "gas" ->
                 publish_state(pub, <<"gas", idn, "valve">>,
                     CASE (At(packet, 6) % 32) \div 16 = 1 -> "open"
                       [] OTHER -> "closed")
          [] device = "energy" ->
                 \* int() of hex digits: a ValueError ends the function
                 IF ~AllDecimal3(At(packet, 6), At(packet, 7), At(packet, 8)) THEN pub
                 ELSE LET pub1 == publish_state(pub, <<"energy", idn, "power">>,
                                      ToString(IntOfDigits3(At(packet, 6), At(packet, 7),
                                                            At(packet, 8))))
                      IN  IF ~AllDecimal3(At(packet, 10), At(packet, 11), At(packet, 12))
                          THEN pub1
                          ELSE publish_state(pub1, <<"energy", idn, "usage">>,
                                   ToString(IntOfDigits3(At(packet, 10), At(packet, 11),
                                                         At(packet, 12))))
          [] device = "elevator" ->
                 publish_state(pub, <<"elevator", idn, "power">>,
                     CASE At(packet, 6) \div 16 = 0 -> "off"
                       [] At(packet, 6) \div 16 = 2 -> "on"
                       [] At(packet, 6) \div 16 = 4 -> "cut"
                       [] OTHER -> ToString(At(packet, 6) \div 16))
          [] device = "doorbell" ->
                 LET event == CASE At(packet, 3) = 130 -> "state"
                                [] At(packet, 3) = 147 -> "ring"
                                [] At(packet, 3) = 18 -> "talk"
                                [] At(packet, 3) = 34 -> "open"
                                [] At(packet, 3) = 17 -> "cancel"
                                [] OTHER -> "off"
                 IN  publish_state(pub, <<"doorbell", idn, event>>,
                         IF event = "ring" THEN "on" ELSE ToString(At(packet, 3)))
          [] OTHER -> pub

\* serial_receive_state; last[idn] is <<>> for True and <<packet>> for a packet
serial_receive_state(pub, device, packet) ==
    LET idn == script_idn(packet)
        seen == idn \in DOMAIN pub.last
    IN  IF seen /\ pub.last[idn] = <<packet>> THEN pub
        ELSE IF discovery /\ ~seen
        THEN [serial_new_device(pub, device, packet) EXCEPT !.last = (idn :> <<>>) @@ @]
        ELSE script_publish([pub EXCEPT !.last = (idn :> <<packet>>) @@ @], device, packet)

\* the globals after serial_receive_state(device, packet)
receive_state(device, packet) ==
    LET pub == serial_receive_state(Publishing, device, packet)
    IN  /\ last' = pub.last
        /\ last_topic_list' = pub.topics
        /\ registered_entities' = pub.registered
        /\ published' = pub.published
        /\ UNCHANGED discovery

clientOnly == <<running, send_queue, discovered, device_states, buffer, scenario,
                probe, flipped>>

\* process_packet_buffer, one turn of its while loop on the buffer `buf` that
\* check_in_waiting() leaves; a return hands the turn to the sender
process_turn(buf) ==
    LET start == find_f7(buf, 0)
        b == DropFirst(buf, start)
        packet == SubSeq(b, 1, script_packet_length(b))
        acked == serial_ack_command(serial_queue, serial_ack, Header4(packet))
    IN  IF start = -1
        THEN /\ recv_buf' = <<>> /\ pc' = "send"
             /\ UNCHANGED <<serial_queue, serial_ack, delivered, events, publishVars>>
        ELSE IF Len(b) < 7 \/ Len(b) < script_packet_length(b)
        THEN /\ recv_buf' = b /\ pc' = "send"
             /\ UNCHANGED <<serial_queue, serial_ack, delivered, events, publishVars>>
        ELSE /\ recv_buf' = DropFirst(b, script_packet_length(b))
             /\ pc' = "process"
             /\ IF ~serial_verify_checksum(packet)
                THEN UNCHANGED <<serial_queue, serial_ack, delivered, events, publishVars>>
                ELSE /\ delivered' = Append(delivered, packet)
                     /\ IF script_is_state(packet)
                        THEN /\ events' = Append(events,
                                     [kind |-> "receive_state",
                                      type |-> script_STATE_HEADER(At(packet, 1))[1],
                                      id |-> "", key |-> "", state |-> packet])
                             /\ receive_state(script_STATE_HEADER(At(packet, 1))[1], packet)
                             /\ UNCHANGED <<serial_queue, serial_ack>>
                        ELSE IF script_is_ack(packet) /\ Header4(packet) \in DOMAIN serial_ack
                        THEN /\ serial_queue' = acked.queue
                             /\ serial_ack' = acked.acks
                             /\ UNCHANGED <<events, publishVars>>
                        ELSE UNCHANGED <<serial_queue, serial_ack, events, publishVars>>

\* check_in_waiting() reads from the socket only when _recv_buf is empty, and then
\* it blocks until the socket has bytes
process_packet_buffer ==
    /\ pc = "process"
    /\ IF recv_buf = <<>>
       THEN \E k \in 1 .. Min(Len(wire), 128) :
                /\ process_turn(TakeFirst(wire, k))
                /\ wire' = DropFirst(wire, k)
       ELSE /\ process_turn(recv_buf)
            /\ UNCHANGED wire
    /\ UNCHANGED <<clientOnly, pending_recv, sent, calls, now, bus, linkVars>>

\* daemon after process_packet_buffer returned: the gated send, then the sleep
daemon_send ==
    LET out == serial_send_command(serial_queue, serial_ack)
    IN  /\ pc = "send"
        /\ IF serial_queue # <<>> /\ pending_recv = 0
           THEN /\ sent' = Append(sent, serial_queue[1].packet)
                /\ serial_queue' = out.queue
                /\ serial_ack' = out.acks
                /\ pending_recv' = IF out.raised THEN pending_recv ELSE Len(recv_buf)
                /\ pc' = IF out.raised THEN "dead" ELSE "process"
           ELSE /\ pc' = "process"
                /\ UNCHANGED <<sent, serial_queue, serial_ack, pending_recv>>
        /\ UNCHANGED <<clientOnly, recv_buf, wire, delivered, events, calls, now, bus, linkVars, publishVars>>

\* mqtt_on_message -> mqtt_device, on the MQTT thread
script_request(device, idn, cmd, payload) ==
    LET packet == mqtt_device(device, idn, cmd, payload)
    IN  /\ serial_queue' = IF packet # <<>> THEN QueuePut(serial_queue, packet, now)
                           ELSE serial_queue
        /\ calls' = Append(calls, [device |-> device, command |-> cmd, idn |-> idn,
                                   payload |-> payload, packet |-> packet])
        /\ UNCHANGED <<clientOnly, recv_buf, pending_recv, serial_ack, pc, wire, delivered,
                       events, sent, now, bus, linkVars, publishVars>>

-----------------------------------------------------------------------------
(* The script's dispatcher between Home Assistant requests and the bus     *)

MaxRequests == 2

MaxBus == 2

MaxTime == 6

ScriptRequests ==
    {[device |-> "light", idn |-> <<1, 1, 1>>, cmd |-> "power", payload |-> "ON"],
     [device |-> "thermostat", idn |-> <<1, 1>>, cmd |-> "mode", payload |-> "heat"],
     [device |-> "thermostat", idn |-> <<1, 1>>, cmd |-> "away", payload |-> "ON"],
     [device |-> "fan", idn |-> <<>>, cmd |-> "power", payload |-> "ON"],
     [device |-> "doorbell", idn |-> <<>>, cmd |-> "ring", payload |-> "ON"],
     [device |-> "light", idn |-> <<1, 1, 1>>, cmd |-> "state", payload |-> "ON"],
     [device |-> "elevator", idn |-> <<>>, cmd |-> "call", payload |-> "ON"]}

\* the packet a device answers a command with: the command's header with byte 3
\* replaced by the registered ack, and a valid trailer
AckPacket(cmd) ==
    Sealed(<<At(cmd, 0), At(cmd, 1), At(cmd, 2), ACK_MAP(At(cmd, 1), At(cmd, 3)),
             At(cmd, 4), At(cmd, 5)>>)

\* what the bus may carry: line noise, a state report, the answer to a tracked command
BusTraffic ==
    {<<0>>, Sealed(<<247, 14, 17, 129, 1, 1>>)}
        \cup {AckPacket(serial_ack[h]) : h \in DOMAIN serial_ack}

ScriptInit ==
    /\ running = FALSE
    /\ send_queue = <<>>
    /\ discovered = {}
    /\ device_states = <<>>
    /\ buffer = <<>>
    /\ wire = <<>>
    /\ events = <<>>
    /\ delivered = <<>>
    /\ scenario = <<>>
    /\ sent = <<>>
    /\ calls = <<>>
    /\ probe = <<>>
    /\ flipped = <<>>
    /\ now = 0
    /\ ScriptStart
    /\ LinkStart
    /\ PublishStart

ScriptRequest ==
    /\ Len(calls) < MaxRequests
    /\ \E r \in ScriptRequests : script_request(r.device, r.idn, r.cmd, r.payload)

ScriptBus ==
    /\ Len(bus) < MaxBus
    /\ \E p \in BusTraffic :
           /\ wire' = wire \o p
           /\ bus' = Append(bus, p)
    /\ UNCHANGED <<clientOnly, recv_buf, pending_recv, serial_queue, serial_ack, pc,
                   delivered, events, sent, calls, now, linkVars, publishVars>>

ScriptTick ==
    /\ now < MaxTime
    /\ now' = now + 1
    /\ UNCHANGED <<clientOnly, scriptVars, wire, delivered, events, sent, calls, linkVars, publishVars>>

ScriptNext ==
    ScriptRequest \/ ScriptBus \/ ScriptTick \/ process_packet_buffer \/ daemon_send

SpecScript == ScriptInit /\ [][ScriptNext]_vars

\* the head of serial_queue is a tracked command that is overdue
HeadOverdue ==
    /\ serial_queue # <<>>
    /\ ACK_MAP(At(serial_queue[1].packet, 1), At(serial_queue[1].packet, 3)) > 0
    /\ now - serial_queue[1].ts > max_retry

HeadAck ==
    <<At(serial_queue[1].packet, 0), At(serial_queue[1].packet, 1),
      At(serial_queue[1].packet, 2),
      ACK_MAP(At(serial_queue[1].packet, 1), At(serial_queue[1].packet, 3))>>

\* C9: a command awaiting a non-zero ack that no packet answers is removed from
\* serial_queue, and its entry from serial_ack, by the daemon turn that finds it
\* more than max_retry seconds old, and only packets still queued are transmitted
C9_AckTimeout ==
    [][/\ (pc = "send" /\ pc' # "send" /\ HeadOverdue)
           => /\ serial_queue[1].packet \notin QueuePackets(serial_queue')
              /\ HeadAck \notin DOMAIN serial_ack'
       /\ sent' # sent => sent'[Len(sent')] \in QueuePackets(serial_queue)]_vars

\* the head of the queue expects no ack: ACK_MAP holds 0x00 for it, or nothing
HeadWaived ==
    /\ serial_queue # <<>>
    /\ ACK_MAP(At(serial_queue[1].packet, 1), At(serial_queue[1].packet, 3)) <= 0

C21_RetryWindowFromFirstSend ==
    [][(/\ sent' # sent
        /\ serial_queue # <<>>
        /\ ACK_MAP(At(serial_queue[1].packet, 1), At(serial_queue[1].packet, 3)) > 0
        /\ serial_queue[1].packet \notin QueuePackets(serial_queue'))
          => \E i \in DOMAIN sent : sent[i] = serial_queue[1].packet]_vars

\* C10: a checksum-valid packet whose header is the expected ack of a command that
\* was sent and recorded in serial_ack removes that command from serial_queue and
\* its entry from serial_ack
C10_AckMatching ==
    [][(/\ Len(delivered') = Len(delivered) + 1
        /\ Header4(delivered'[Len(delivered')]) \in DOMAIN serial_ack)
           => /\ Header4(delivered'[Len(delivered')]) \notin DOMAIN serial_ack'
              /\ serial_ack[Header4(delivered'[Len(delivered')])]
                     \notin QueuePackets(serial_queue')]_vars

-----------------------------------------------------------------------------
(* EzvilleRS485Client between its callers and the bus                      *)

\* self._ack_map[id][cmd]: the registered ack byte, or the empty dict (-1)
ack_map(id, cmd) ==
    LET hits == {<<d, c>> \in {<<x, y>> : x \in DeviceTypes,
                                 y \in {"power", "mode", "target", "away", "speed", "close",
                                        "call", "ring", "talk", "open", "cancel"}} :
                    /\ c \in DOMAIN RS485_DEVICE[d]
                    /\ "ack" \in DOMAIN RS485_DEVICE[d][c]
                    /\ RS485_DEVICE[d][c].id = id
                    /\ RS485_DEVICE[d][c].cmd = cmd}
    IN  IF hits = {} THEN -1
        ELSE LET h == CHOOSE x \in hits : TRUE
             IN  RS485_DEVICE[h[1]][h[2]].ack

\* const.py: DEFAULT_MAX_RETRY, in seconds
DEFAULT_MAX_RETRY == 10

MaxLinkCalls == 2

MaxLinkTime == 3

MaxLinkPackets == 2
MaxRaises == 2

LinkRequests ==
    {[device |-> "light", command |-> "power", idn |-> <<1, 1>>, payload |-> PyBool(TRUE)],
     [device |-> "thermostat", command |-> "mode", idn |-> <<1>>, payload |-> PyStr("heat")],
     [device |-> "light", command |-> "power", idn |-> <<1>>, payload |-> PyBool(TRUE)],
     [device |-> "light", command |-> "power", idn |-> <<>>, payload |-> PyBool(TRUE)],
     [device |-> "plug", command |-> "power", idn |-> <<1, 1, 1>>, payload |-> PyBool(TRUE)],
     [device |-> "light", command |-> "bogus", idn |-> <<1, 1>>, payload |-> PyBool(TRUE)],
     [device |-> "sprinkler", command |-> "power", idn |-> <<1, 1>>, payload |-> PyBool(TRUE)]}

\* the header a device answers a command with
AckHeader(packet) ==
    <<At(packet, 0), At(packet, 1), At(packet, 2), ack_map(At(packet, 1), At(packet, 3))>>

\* what recv may hand over: nothing, a state report, the answer to a transmitted command
LinkTraffic ==
    {<<>>, Sealed(<<247, 18, 1, 129, 2, 0, 1>>)}
        \cup {Sealed(AckHeader(sent[i]) \o <<1, 0>>) : i \in DOMAIN sent}

LinkInit ==
    /\ running = FALSE
    /\ send_queue = <<>>
    /\ discovered = {}
    /\ device_states = <<>>
    /\ buffer = <<>>
    /\ wire = <<>>
    /\ events = <<>>
    /\ delivered = <<>>
    /\ scenario = <<>>
    /\ sent = <<>>
    /\ calls = <<>>
    /\ probe = <<>>
    /\ flipped = <<>>
    /\ now = 0
    /\ ScriptStart
    /\ LinkStart
    /\ PublishStart

LinkConnect == ~running /\ async_connect

LinkSend ==
    /\ Len(calls) < MaxLinkCalls
    /\ \E r \in LinkRequests : send_command(r.device, r.command, r.idn, r.payload)

LinkTick ==
    /\ now < MaxLinkTime
    /\ now' = now + 1
    /\ UNCHANGED <<running, send_queue, discovered, device_states, buffer, wire, events,
                   delivered, scenario, sent, calls, probe, flipped, scriptVars, linkVars, publishVars>>

LinkLoop ==
    /\ Len(delivered) < MaxLinkPackets
    /\ \E data \in LinkTraffic : message_loop(data)
    /\ UNCHANGED wire

LinkSendRaises ==
    /\ Len(raised) < MaxRaises
    /\ \E k \in DOMAIN Due(send_queue) : message_loop_send_raises(k)

LinkRecvRaises ==
    /\ Len(raised) < MaxRaises
    /\ message_loop_recv_raises

LinkNext ==
    \/ LinkConnect
    \/ LinkSend
    \/ LinkTick
    \/ LinkLoop
    \/ LinkSendRaises
    \/ LinkRecvRaises

SpecLink == LinkInit /\ [][LinkNext]_vars

Answered(packet) ==
    \E i \in DOMAIN delivered : SubSeq(delivered[i], 1, 4) = AckHeader(packet)

\* C11: a transmitted command with a non-zero registered ack stays tracked, in
\* _send_queue or _ack_queue, as long as no packet with its ack header has been
\* received and max_retry has not elapsed
C11_TransmittedStaysTracked ==
    \A i \in DOMAIN sent :
        (/\ ack_map(At(sent[i], 1), At(sent[i], 3)) > 0
         /\ ~Answered(sent[i])
         /\ now <= DEFAULT_MAX_RETRY * 10 * DebounceTicks)
            => \/ sent[i] \in QueuePackets(send_queue)
               \/ sent[i] \in DOMAIN ack_queue

\* a request send_command cannot serve: the device or the command is not in
\* RS485_DEVICE, or a light/plug idn is not room_sub
Malformed(c) ==
    \/ c.device \notin DOMAIN RS485_DEVICE
    \/ c.command \notin DOMAIN RS485_DEVICE[c.device]
    \/ (c.device \in {"light", "plug"} /\ Len(c.idn) # 2)

MalformedCallStep ==
    (calls' # calls /\ Malformed(calls'[Len(calls')])) => send_queue' = send_queue

SentByWellFormedCall ==
    \A i \in DOMAIN sent :
        \E j \in DOMAIN calls :
            /\ ~Malformed(calls[j])
            /\ calls[j].result.status = "packet"
            /\ calls[j].result.packet = sent[i]

-----------------------------------------------------------------------------
(* The script's dispatcher with several commands waiting                    *)

MaxOrderRequests == 3
MaxOrderBus == 3
MaxOrderTime == 5

\* two lamps of one room: both commands expect an ack
OrderRequests ==
    {[device |-> "light", idn |-> <<1, 1, 1>>, cmd |-> "power", payload |-> "ON"],
     [device |-> "light", idn |-> <<1, 1, 2>>, cmd |-> "power", payload |-> "ON"]}

\* line noise, or the answer of the device to a command the script waits on
OrderTraffic == {<<0>>} \cup {AckPacket(serial_ack[h]) : h \in DOMAIN serial_ack}

OrderInit ==
    /\ running = FALSE
    /\ send_queue = <<>>
    /\ discovered = {}
    /\ device_states = <<>>
    /\ buffer = <<>>
    /\ wire = <<>>
    /\ events = <<>>
    /\ delivered = <<>>
    /\ scenario = <<>>
    /\ sent = <<>>
    /\ calls = <<>>
    /\ probe = <<>>
    /\ flipped = <<>>
    /\ now = 0
    /\ ScriptStart
    /\ LinkStart
    /\ PublishStart

OrderRequest ==
    /\ Len(calls) < MaxOrderRequests
    /\ \E r \in OrderRequests : script_request(r.device, r.idn, r.cmd, r.payload)

\* bytes arrive while the socket is empty
OrderBus ==
    /\ Len(bus) < MaxOrderBus
    /\ wire = <<>>
    /\ \E p \in OrderTraffic :
           /\ wire' = p
           /\ bus' = Append(bus, p)
    /\ UNCHANGED <<clientOnly, recv_buf, pending_recv, serial_queue, serial_ack, pc,
                   delivered, events, sent, calls, now, linkVars, publishVars>>

OrderTick ==
    /\ now < MaxOrderTime
    /\ now' = now + 1
    /\ UNCHANGED <<clientOnly, scriptVars, wire, delivered, events, sent, calls,
                   linkVars, publishVars>>

OrderProcess == process_packet_buffer

OrderSend == daemon_send

OrderNext == OrderRequest \/ OrderBus \/ OrderTick \/ OrderProcess \/ OrderSend

SpecOrder == OrderInit /\ [][OrderNext]_vars

PacketsOf(queue) == [i \in DOMAIN queue |-> queue[i].packet]

\* the packets of the queue that are still queued after the step, in order
Kept == SelectSeq(PacketsOf(serial_queue), LAMBDA p : p \in QueuePackets(serial_queue'))

\* C33: serial_send_command only ever transmits the first entry of
\* serial_queue, and the queue keeps its order: what stays queued stays in
\* front of what is added, and a packet queued again keeps its place, so a
\* later command is transmitted only after every earlier one was removed
C33_OldestFirst ==
    [][/\ (sent' # sent)
           => /\ serial_queue # <<>>
              /\ sent' = Append(sent, serial_queue[1].packet)
       /\ Len(PacketsOf(serial_queue')) >= Len(Kept)
       /\ SubSeq(PacketsOf(serial_queue'), 1, Len(Kept)) = Kept]_vars

\* lamp 1 was queued, then lamp 2, then lamp 1 again; lamp 1 was transmitted
\* and removed before lamp 2 was transmitted
C33_Witness ==
    /\ Len(calls) = 3
    /\ calls[1].packet = calls[3].packet
    /\ calls[1].packet # calls[2].packet
    /\ Len(sent) >= 2
    /\ sent[1] = calls[1].packet
    /\ sent[Len(sent)] = calls[2].packet
    /\ \E i \in DOMAIN sent : sent[i] = calls[1].packet /\ i > 1

-----------------------------------------------------------------------------
(* The script given state packets one after another                        *)

MaxReceived == 4

\* two groups of lights in room 1, the gas valve closed and open, a fan and the
\* thermostats of two groups
ReceivePackets ==
    {Sealed(<<247, 14, 17, 129, 3, 1, 0, 0>>),
     Sealed(<<247, 14, 17, 129, 3, 0, 0, 0>>),
     Sealed(<<247, 14, 33, 129, 3, 1, 0, 0>>),
     Sealed(<<247, 18, 1, 129, 2, 0, 1>>),
     Sealed(<<247, 18, 1, 129, 2, 0, 17>>),
     Sealed(<<247, 50, 1, 129, 5, 0, 1, 1, 2, 1>>),
     Sealed(<<247, 54, 31, 129, 7, 0, 1, 0, 0, 0, 24, 22>>),
     Sealed(<<247, 54, 47, 129, 7, 0, 1, 0, 0, 0, 24, 22>>)}

ReceiveInit ==
    /\ running = FALSE
    /\ send_queue = <<>>
    /\ discovered = {}
    /\ device_states = <<>>
    /\ buffer = <<>>
    /\ wire = <<>>
    /\ events = <<>>
    /\ delivered = <<>>
    /\ scenario = <<>>
    /\ sent = <<>>
    /\ calls = <<>>
    /\ probe = <<>>
    /\ flipped = <<>>
    /\ now = 0
    /\ ScriptStart
    /\ LinkStart
    /\ last = EmptyAck
    /\ last_topic_list = EmptyAck
    /\ registered_entities = InitialEntities
    /\ published = <<>>
    /\ discovery \in BOOLEAN

\* process_packet_buffer found a whole state packet with a good checksum
ReceiveState ==
    /\ Len(delivered) < MaxReceived
    /\ \E packet \in ReceivePackets :
           /\ delivered' = Append(delivered, packet)
           /\ receive_state(script_STATE_HEADER(At(packet, 1))[1], packet)
    /\ UNCHANGED <<running, send_queue, discovered, device_states, buffer, wire, events,
                   scenario, sent, calls, probe, flipped, now, scriptVars, linkVars>>

ReceiveNext == ReceiveState

SpecReceive == ReceiveInit /\ [][ReceiveNext]_vars

\* the earlier packets of the same (id, num) pair as packet
SamePair(packet) ==
    {i \in DOMAIN delivered :
        At(delivered[i], 1) = At(packet, 1) /\ At(delivered[i], 2) = At(packet, 2)}

StatesPublished(log) == SelectSeq(log, LAMBDA e : e.kind = "state")

\* C32: with discovery enabled the first state packet of an (id, num) pair
\* registers the device and publishes no state, the next packet of the pair
\* publishes state even when it is the same packet, and a later packet equal
\* to the last one stored publishes nothing
C32_DiscoveryThenState ==
    [][(discovery /\ delivered' # delivered)
           => LET packet == delivered'[Len(delivered')]
                  before == SamePair(packet)
              IN  /\ (before = {})
                         => StatesPublished(published') = StatesPublished(published)
                  /\ (Cardinality(before) = 1)
                         => StatesPublished(published') # StatesPublished(published)
                  /\ (/\ Cardinality(before) >= 2
                      /\ \E i \in before : /\ \A k \in before : k <= i
                                           /\ delivered[i] = packet)
                         => published' = published]_vars

-----------------------------------------------------------------------------
(* The script's debug send path: mqtt_debug regenerates the trailer of a   *)
(* packet the caller supplies                                               *)

\* mqtt_debug, topic .../packet/send: `packet` is bytearray.fromhex(payload)
mqtt_debug(packet) ==
    /\ serial_queue' = QueuePut(serial_queue, with_checksum(packet), now)
    /\ UNCHANGED <<clientOnly, recv_buf, pending_recv, serial_ack, pc, wire, delivered,
                   events, sent, calls, now, bus, linkVars, publishVars>>

MaxDebugLen == 4
DebugBytes == {0, 1, 14, 247}

DebugInit ==
    /\ running = FALSE
    /\ send_queue = <<>>
    /\ discovered = {}
    /\ device_states = <<>>
    /\ buffer = <<>>
    /\ wire = <<>>
    /\ events = <<>>
    /\ delivered = <<>>
    /\ scenario = <<>>
    /\ sent = <<>>
    /\ calls = <<>>
    /\ probe \in {p \in SeqsUpTo(DebugBytes, MaxDebugLen) : Len(p) >= 3}
    /\ flipped = <<>>
    /\ now = 0
    /\ ScriptStart
    /\ LinkStart
    /\ PublishStart

\* the caller's packet is `probe`
DebugSend == serial_queue = <<>> /\ mqtt_debug(probe)

DebugNext == DebugSend

SpecDebug == DebugInit /\ [][DebugNext]_vars

\* C24: for every packet of at least 3 bytes, whatever its last two bytes were,
\* the packet with the trailer of serial_generate_checksum written into them
\* is accepted by serial_verify_checksum
C24_ScriptChecksumRoundTrip ==
    \A i \in DOMAIN serial_queue : serial_verify_checksum(serial_queue[i].packet)

-----------------------------------------------------------------------------
(* The script's daemon left to run: the bus keeps sending bytes, the clock  *)
(* keeps going, and daemon gets its turns.  time.sleep(0.01) paces the loop *)
(* (here TurnsPerSecond transmissions a second at most).                    *)

MaxGateRequests == 2
MaxGateTime == 6
MaxGateWire == 2
TurnsPerSecond == 2

\* commands with a registered ack
GateRequests ==
    {[device |-> "light", idn |-> <<1, 1, 1>>, cmd |-> "power", payload |-> "ON"],
     [device |-> "fan", idn |-> <<>>, cmd |-> "power", payload |-> "ON"]}

GatePackets == {mqtt_device(r.device, r.idn, r.cmd, r.payload) : r \in GateRequests}

\* what the socket hands over: a noise byte, or the first bytes of a frame
GateTraffic == {<<0>>, <<247, 14>>}

GateInit ==
    /\ running = FALSE
    /\ send_queue = <<>>
    /\ discovered = {}
    /\ device_states = <<>>
    /\ buffer = <<>>
    /\ wire = <<>>
    /\ events = <<>>
    /\ delivered = <<>>
    /\ scenario = <<>>
    /\ sent = <<>>
    /\ calls = <<>>
    /\ probe = <<>>
    /\ flipped = <<>>
    /\ now = 0
    /\ ScriptStart
    /\ LinkStart
    /\ PublishStart

\* requests come early enough for their retry window to end within MaxGateTime
GateRequest ==
    /\ Len(calls) < MaxGateRequests
    /\ now + max_retry + 1 < MaxGateTime
    /\ \E r \in GateRequests : script_request(r.device, r.idn, r.cmd, r.payload)

\* the bus never falls silent: bytes arrive whenever the socket has room
GateBus ==
    /\ Len(wire) < MaxGateWire
    /\ \E p \in GateTraffic : wire' = wire \o p
    /\ UNCHANGED <<clientOnly, scriptVars, delivered, events, sent, calls, now, linkVars, publishVars>>

GateTick ==
    /\ now < MaxGateTime
    /\ now' = now + 1
    /\ UNCHANGED <<clientOnly, scriptVars, wire, delivered, events, sent, calls, linkVars, publishVars>>

GateProcess == process_packet_buffer

GateSend ==
    /\ Len(sent) < TurnsPerSecond * (now + 1)
    /\ daemon_send

GateNext == GateRequest \/ GateBus \/ GateTick \/ GateProcess \/ GateSend

SpecGate ==
    /\ GateInit
    /\ [][GateNext]_vars
    /\ WF_vars(GateBus)
    /\ WF_vars(GateTick)
    /\ WF_vars(GateProcess)
    /\ WF_vars(GateSend)

\* C22: with daemon scheduled fairly and bytes arriving from the bus without
\* end, every packet put into serial_queue is eventually removed from it
C22_QueuedEventuallyRemoved ==
    \A p \in GatePackets :
        (p \in QueuePackets(serial_queue)) ~> (p \notin QueuePackets(serial_queue))

-----------------------------------------------------------------------------
(* EzvilleRS485Client over several connections: close() and the threads    *)
(* it leaves behind.  On a serial or socket link recv(128) blocks until 128 *)
(* bytes have arrived, so the worker can be inside recv for longer than the *)
(* five seconds close() waits for it.                                       *)

RemoveAt(seq, k) == [i \in 1 .. Len(seq) - 1 |-> IF i < k THEN seq[i] ELSE seq[i + 1]]

\* close(): _running = False, join(timeout=5), _conn.close().  `joined` tells
\* whether the worker left its loop within the five seconds; a worker that did
\* not is still inside recv
close(joined) ==
    /\ running' = FALSE
    /\ stragglers' = IF running /\ ~joined
                     THEN Append(stragglers, [at |-> "recv", buffer |-> buffer])
                     ELSE stragglers
    /\ buffer' = <<>>
    /\ UNCHANGED <<send_queue, discovered, device_states, wire, events, delivered,
                   scenario, sent, calls, probe, flipped, now, scriptVars, ack_queue, previous_mqtt_values, raised, publishVars>>

\* a thread left behind comes out of recv with `data` (<<>> when recv raised)
\* and finishes its iteration
straggler_return(k, data) ==
    LET got == IF data = <<>> THEN [buffer |-> stragglers[k].buffer, packets |-> <<>>]
               ELSE process_buffer(stragglers[k].buffer \o data, <<>>)
        st == process_packets([disc |-> discovered, states |-> device_states,
                               ev |-> events], got.packets)
    IN  /\ stragglers[k].at = "recv"
        /\ stragglers' = [stragglers EXCEPT ![k] = [at |-> "top", buffer |-> got.buffer]]
        /\ delivered' = delivered \o got.packets
        /\ discovered' = st.disc
        /\ device_states' = st.states
        /\ events' = st.ev
        /\ UNCHANGED <<running, send_queue, buffer, wire, scenario, sent, calls, probe,
                       flipped, now, scriptVars, ack_queue, previous_mqtt_values, raised, publishVars>>

\* "while self._running:" in a thread left behind: it ends when the flag is
\* down, and otherwise sends what is due and calls recv like any worker
straggler_check(k) ==
    /\ stragglers[k].at = "top"
    /\ IF running
       THEN /\ sent' = sent \o [i \in DOMAIN Due(send_queue) |-> Due(send_queue)[i].packet]
            /\ send_queue' = NotDue(send_queue)
            /\ stragglers' = [stragglers EXCEPT ![k].at = "recv"]
       ELSE /\ stragglers' = RemoveAt(stragglers, k)
            /\ UNCHANGED <<sent, send_queue>>
    /\ UNCHANGED <<running, discovered, device_states, buffer, wire, events, delivered,
                   scenario, calls, probe, flipped, now, scriptVars, ack_queue, previous_mqtt_values, raised, publishVars>>

MaxStragglers == 1
MaxSessionCalls == 1
MaxSessionPackets == 2
MaxSessionTime == 2

SessionRequests ==
    {[device |-> "light", command |-> "power", idn |-> <<1, 1>>, payload |-> PyBool(TRUE)]}

SessionTraffic == {<<>>, Sealed(<<247, 18, 1, 129, 2, 0, 1>>), <<247, 14, 17>>, LightExample}

SessionInit ==
    /\ running = FALSE
    /\ send_queue = <<>>
    /\ discovered = {}
    /\ device_states = <<>>
    /\ buffer = <<>>
    /\ wire = <<>>
    /\ events = <<>>
    /\ delivered = <<>>
    /\ scenario = <<>>
    /\ sent = <<>>
    /\ calls = <<>>
    /\ probe = <<>>
    /\ flipped = <<>>
    /\ now = 0
    /\ ScriptStart
    /\ LinkStart
    /\ PublishStart

SessionConnect == ~running /\ async_connect

SessionClose ==
    /\ running
    /\ Len(stragglers) < MaxStragglers
    /\ \E joined \in BOOLEAN : close(joined)

SessionSend ==
    /\ Len(calls) < MaxSessionCalls
    /\ \E r \in SessionRequests : send_command(r.device, r.command, r.idn, r.payload)

SessionTick ==
    /\ now < MaxSessionTime
    /\ now' = now + 1
    /\ UNCHANGED <<running, send_queue, discovered, device_states, buffer, wire, events,
                   delivered, scenario, sent, calls, probe, flipped, scriptVars, linkVars, publishVars>>

SessionLoop ==
    /\ Len(delivered) < MaxSessionPackets
    /\ \E data \in SessionTraffic : message_loop(data)
    /\ UNCHANGED wire

SessionStragglerReturn ==
    /\ Len(delivered) < MaxSessionPackets
    /\ \E k \in DOMAIN stragglers : \E data \in SessionTraffic : straggler_return(k, data)

SessionStragglerCheck == \E k \in DOMAIN stragglers : straggler_check(k)

SessionNext ==
    \/ SessionConnect
    \/ SessionClose
    \/ SessionSend
    \/ SessionTick
    \/ SessionLoop
    \/ SessionStragglerReturn
    \/ SessionStragglerCheck

SpecSession == SessionInit /\ [][SessionNext]_vars

\* C15: after close() followed by async_connect() the client starts afresh:
\* _discovered_devices, _device_states and _send_queue are empty
C15_ReconnectResetsSession ==
    [][(~running /\ running')
          => (discovered' = {} /\ device_states' = <<>> /\ send_queue' = <<>>)]_vars

\* the threads inside _message_loop: the one async_connect started last, alive
\* while the flag is up, and those close() left behind
Workers == (IF running THEN 1 ELSE 0) + Len(stragglers)

\* C30: while the client stays connected no step removes an element from
\* _discovered_devices or a key from _device_states
C30_SessionOnlyGrows ==
    [][(running /\ running')
           => /\ discovered \subseteq discovered'
              /\ DOMAIN device_states \subseteq DOMAIN device_states']_vars

\* two devices were found in one session and both are still known
C30_Witness ==
    /\ running
    /\ Len(delivered) = 2
    /\ {"gas", "light_1_1"} \subseteq discovered
    /\ {"gas", "light_1_1"} \subseteq DOMAIN device_states

\* C17: over any sequence of async_connect() and close() calls, a close()
\* whose join times out included, at most one thread is executing _message_loop
C17_SingleWorker == Workers <= 1

-----------------------------------------------------------------------------
(* EzvilleRS485Client on an MQTT link: _process_mqtt_data                   *)

\* the number of bytes of data before its first 0xF7
BeforeF7(data) ==
    IF \E k \in DOMAIN data : data[k] = F7
    THEN (CHOOSE k \in DOMAIN data : data[k] = F7 /\ \A m \in 1 .. k - 1 : data[m] # F7) - 1
    ELSE Len(data)

\* "Split by F7 markers": the for loop, a run of bytes other than 0xF7 taken in
\* one step
RECURSIVE mqtt_split(_, _, _, _)
mqtt_split(data, messages, current_msg, started) ==
    IF data = <<>>
    THEN IF current_msg # <<>> THEN Append(messages, current_msg) ELSE messages
    ELSE IF BeforeF7(data) > 0
    THEN mqtt_split(DropFirst(data, BeforeF7(data)), messages,
                    IF started THEN current_msg \o TakeFirst(data, BeforeF7(data))
                    ELSE current_msg,
                    started)
    ELSE LET flush == started /\ current_msg # <<>>
         IN  mqtt_split(Tail(data),
                        IF flush THEN Append(messages, current_msg) ELSE messages,
                        Append(IF flush THEN <<>> ELSE current_msg, F7), TRUE)

\* "Remove duplicate packets before processing"
RECURSIVE mqtt_unique(_, _)
mqtt_unique(messages, unique_messages) ==
    IF messages = <<>> THEN unique_messages
    ELSE LET msg == Head(messages)
         IN  mqtt_unique(Tail(messages),
                         IF Len(msg) < 4 \/ \E i \in DOMAIN unique_messages :
                                                unique_messages[i] = msg
                         THEN unique_messages
                         ELSE Append(unique_messages, msg))

\* "Process each unique message": the new value of _previous_mqtt_values and
\* the packets given to _process_packet, in order
RECURSIVE mqtt_changed(_, _, _)
mqtt_changed(unique_messages, previous, packets) ==
    IF unique_messages = <<>> THEN [previous |-> previous, packets |-> packets]
    ELSE LET msg == Head(unique_messages)
             signature == SubSeq(msg, 1, 4)
         IN  IF signature \notin DOMAIN previous \/ previous[signature] # msg
             THEN mqtt_changed(Tail(unique_messages), (signature :> msg) @@ previous,
                               Append(packets, msg))
             ELSE mqtt_changed(Tail(unique_messages), previous, packets)

process_mqtt_data(data, previous) ==
    mqtt_changed(mqtt_unique(mqtt_split(data, <<>>, <<>>, FALSE), <<>>), previous, <<>>)

\* one iteration of the while loop of _message_loop on an MQTT link; `data` is
\* what EzvilleMqtt.recv(128) returns
message_loop_mqtt(data) ==
    LET got == IF data = <<>>
               THEN [previous |-> previous_mqtt_values, packets |-> <<>>]
               ELSE process_mqtt_data(data, previous_mqtt_values)
        st == process_packets([disc |-> discovered, states |-> device_states,
                               ev |-> events], got.packets)
    IN  /\ running
        /\ sent' = sent \o [i \in DOMAIN Due(send_queue) |-> Due(send_queue)[i].packet]
        /\ send_queue' = NotDue(send_queue)
        /\ previous_mqtt_values' = got.previous
        /\ delivered' = delivered \o got.packets
        /\ discovered' = st.disc
        /\ device_states' = st.states
        /\ events' = st.ev
        /\ UNCHANGED <<running, buffer, scenario, calls, probe, flipped, now,
                       scriptVars, ack_queue, stragglers, raised, publishVars>>

MaxMqttPackets == 3
MaxMqttCalls == 1
MaxMqttTime == 2

MqttRequests ==
    {[device |-> "light", command |-> "power", idn |-> <<1, 1>>, payload |-> PyBool(TRUE)],
     [device |-> "fan", command |-> "speed", idn |-> <<>>, payload |-> PyInt(2)]}

\* what the broker may publish: valid packets, one and two to a message, a
\* packet with a wrong checksum, a packet with a wrong add byte, a cut packet
MqttTraffic ==
    {<<>>,
     LightExample,
     Sealed(<<247, 18, 1, 129, 2, 0, 1>>),
     LightExample \o Sealed(<<247, 18, 1, 129, 2, 0, 1>>),
     LightExample \o LightExample,
     <<247, 18, 1, 129, 2, 0, 1, 0, 0>>,
     DropLast(Sealed(<<247, 50, 1, 129, 5, 0, 1, 1, 2, 1>>), 1) \o <<0>>,
     <<1, 2, 247, 14, 17, 129>>}

MqttInit ==
    /\ running = FALSE
    /\ send_queue = <<>>
    /\ discovered = {}
    /\ device_states = <<>>
    /\ buffer = <<>>
    /\ wire = <<>>
    /\ events = <<>>
    /\ delivered = <<>>
    /\ scenario = <<>>
    /\ sent = <<>>
    /\ calls = <<>>
    /\ probe = <<>>
    /\ flipped = <<>>
    /\ now = 0
    /\ ScriptStart
    /\ LinkStart
    /\ PublishStart

MqttConnect == ~running /\ async_connect

MqttSend ==
    /\ Len(calls) < MaxMqttCalls
    /\ \E r \in MqttRequests : send_command(r.device, r.command, r.idn, r.payload)

MqttTick ==
    /\ now < MaxMqttTime
    /\ now' = now + 1
    /\ UNCHANGED <<running, send_queue, discovered, device_states, buffer, wire, events,
                   delivered, scenario, sent, calls, probe, flipped, scriptVars, linkVars, publishVars>>

MqttLoop ==
    /\ Len(delivered) < MaxMqttPackets
    /\ \E data \in MqttTraffic : message_loop_mqtt(data)
    /\ UNCHANGED wire

MqttNext == MqttConnect \/ MqttSend \/ MqttTick \/ MqttLoop

SpecMqtt == MqttInit /\ [][MqttNext]_vars

\* C16: on the stream path and on the MQTT path alike, every packet given to
\* _process_packet satisfies _verify_checksum
C16_OnlyVerifiedPacketsClassified ==
    \A i \in DOMAIN delivered : verify_checksum(delivered[i])

-----------------------------------------------------------------------------
(* EzvilleMqtt: the receive buffer filled by the broker, drained by recv    *)

\* "data = self._conn.recv(128)"
RecvCount == 128

\* EzvilleMqtt.recv: the first `count` bytes, or what there is
mqtt_recv(recv_buffer, count) ==
    IF Len(recv_buffer) >= count
    THEN [result |-> SubSeq(recv_buffer, 1, count), rest |-> DropFirst(recv_buffer, count)]
    ELSE [result |-> recv_buffer, rest |-> <<>>]

\* EzvilleMqtt._on_message: the payload is appended to the receive buffer,
\* here held in `wire`
on_message(payload) ==
    /\ running
    /\ wire' = wire \o payload
    /\ UNCHANGED <<running, send_queue, discovered, device_states, buffer, events,
                   delivered, scenario, sent, calls, probe, flipped, now, scriptVars,
                   linkVars, publishVars>>

MaxBrokerPackets == 4
MaxBrokerBacklog == 9

GasClosed == Sealed(<<247, 18, 1, 129, 2, 0, 1>>)
GasOpen == Sealed(<<247, 18, 1, 129, 2, 0, 17>>)
FanExample == Sealed(<<247, 50, 1, 129, 3, 1, 2, 1>>)

RECURSIVE Repeat(_, _)
Repeat(s, n) == IF n = 0 THEN <<>> ELSE s \o Repeat(s, n - 1)

\* the packets the wallpad puts on the bus
BrokerPackets == {GasClosed, GasOpen, FanExample, LightExample}

\* what one MQTT message may carry: one packet, a gas valve that closed, opened
\* and closed again, and a backlog of 14 packets that is longer than one read
BrokerPayloads ==
    {GasClosed, GasOpen, LightExample,
     GasClosed \o GasOpen \o GasClosed,
     Repeat(GasClosed, 11) \o FanExample \o FanExample \o LightExample}

BrokerInit ==
    /\ running = FALSE
    /\ send_queue = <<>>
    /\ discovered = {}
    /\ device_states = <<>>
    /\ buffer = <<>>
    /\ wire = <<>>
    /\ events = <<>>
    /\ delivered = <<>>
    /\ scenario = <<>>
    /\ sent = <<>>
    /\ calls = <<>>
    /\ probe = <<>>
    /\ flipped = <<>>
    /\ now = 0
    /\ ScriptStart
    /\ LinkStart
    /\ PublishStart

BrokerConnect == ~running /\ async_connect

BrokerPublish ==
    /\ Len(wire) <= MaxBrokerBacklog
    /\ \E payload \in BrokerPayloads : on_message(payload)

BrokerLoop ==
    /\ Len(delivered) < MaxBrokerPackets
    /\ message_loop_mqtt(mqtt_recv(wire, RecvCount).result)
    /\ wire' = mqtt_recv(wire, RecvCount).rest

BrokerNext == BrokerConnect \/ BrokerPublish \/ BrokerLoop

SpecBroker == BrokerInit /\ [][BrokerNext]_vars

\* the last packet given to _process_packet with the signature of msg, <<>> if none
LastProcessed(log, msg) ==
    LET same == {i \in DOMAIN log : SubSeq(log[i], 1, 4) = SubSeq(msg, 1, 4)}
    IN  IF same = {} THEN <<>>
        ELSE log[CHOOSE i \in same : \A k \in same : k <= i]

\* the log after each message in turn was processed when it differs from the
\* last one processed with its signature
RECURSIVE ProcessedWhenChanged(_, _)
ProcessedWhenChanged(messages, log) ==
    IF messages = <<>> THEN log
    ELSE ProcessedWhenChanged(Tail(messages),
             IF Len(Head(messages)) >= 4 /\ LastProcessed(log, Head(messages)) # Head(messages)
             THEN Append(log, Head(messages))
             ELSE log)

\* C31: a message of an MQTT read is given to _process_packet if and only if
\* its bytes differ from the last message processed with the same first four
\* bytes, or none with them was processed before
C31_MqttDeduplication ==
    [][(running /\ wire # <<>> /\ Len(wire') < Len(wire))
           => delivered' = ProcessedWhenChanged(
                               mqtt_split(mqtt_recv(wire, RecvCount).result,
                                          <<>>, <<>>, FALSE),
                               delivered)]_vars

\* C37: every packet given to _process_packet on the MQTT link is a packet
\* that was published whole, never the head of one cut by the size of a read
C37_MqttPacketsWhole ==
    \A i \in DOMAIN delivered : delivered[i] \in BrokerPackets

-----------------------------------------------------------------------------
(* The worker left to run beside its callers: time passes, and the while    *)
(* loop of _message_loop, paced by time.sleep(0.01), gets its iterations    *)

MaxWorkerCalls == 2
MaxWorkerTime == 4

WorkerRequests ==
    {[device |-> "light", command |-> "power", idn |-> <<1, 1>>, payload |-> PyBool(TRUE)],
     [device |-> "thermostat", command |-> "mode", idn |-> <<1>>, payload |-> PyStr("heat")]}

WorkerPackets ==
    {create_command_packet(r.device, r.command, r.idn, r.payload).packet :
        r \in WorkerRequests}

WorkerInit ==
    /\ running = FALSE
    /\ send_queue = <<>>
    /\ discovered = {}
    /\ device_states = <<>>
    /\ buffer = <<>>
    /\ wire = <<>>
    /\ events = <<>>
    /\ delivered = <<>>
    /\ scenario = <<>>
    /\ sent = <<>>
    /\ calls = <<>>
    /\ probe = <<>>
    /\ flipped = <<>>
    /\ now = 0
    /\ ScriptStart
    /\ LinkStart
    /\ PublishStart

WorkerConnect == ~running /\ async_connect

\* callers come early enough for the 100 ms to pass within MaxWorkerTime
WorkerSend ==
    /\ Len(calls) < MaxWorkerCalls
    /\ now + DebounceTicks < MaxWorkerTime
    /\ \E r \in WorkerRequests : send_command(r.device, r.command, r.idn, r.payload)

WorkerTick ==
    /\ now < MaxWorkerTime
    /\ now' = now + 1
    /\ UNCHANGED <<running, send_queue, discovered, device_states, buffer, wire, events,
                   delivered, scenario, sent, calls, probe, flipped, scriptVars,
                   linkVars, publishVars>>

\* an iteration of the while loop; recv returns nothing or the first bytes
\* of a state report
WorkerLoop ==
    /\ \/ message_loop(<<>>)
       \/ /\ buffer = <<>>
          /\ message_loop(<<247, 18>>)
    /\ UNCHANGED wire

WorkerNext == WorkerConnect \/ WorkerSend \/ WorkerTick \/ WorkerLoop

SpecWorker ==
    /\ WorkerInit
    /\ [][WorkerNext]_vars
    /\ WF_vars(WorkerTick)
    /\ WF_vars(WorkerLoop)

Transmissions(p) == Cardinality({i \in DOMAIN sent : sent[i] = p})
Enqueues(p) ==
    Cardinality({i \in DOMAIN calls : calls[i].ran /\ calls[i].result.status = "packet"
                                      /\ calls[i].result.packet = p})

-----------------------------------------------------------------------------
(* The debounce of the send queue *)

\* the packets this step transmitted
NewlySent == {sent'[i] : i \in Len(sent) + 1 .. Len(sent')}

DebounceStep ==
    /\ \A p \in NewlySent :
           \E i \in DOMAIN send_queue :
               /\ send_queue[i].packet = p
               /\ now - send_queue[i].ts > DebounceTicks
    /\ (calls' # calls /\ calls'[Len(calls')].result.status = "packet" /\ running)
           => \E i \in DOMAIN send_queue' :
                  /\ send_queue'[i].packet = calls'[Len(calls')].result.packet
                  /\ send_queue'[i].ts = now
    /\ QueuePackets(send_queue) \ QueuePackets(send_queue') \subseteq NewlySent

\* C23: _message_loop transmits a packet only when more than 100 ms have
\* passed since the latest send_command that queued it (each such call sets
\* the packet's time anew), and a packet leaves _send_queue only in the
\* iteration that transmitted it
C23_Debounce == [][DebounceStep]_vars

\* the same packet was queued twice and then transmitted once
C23_Witness ==
    /\ Len(calls) = 2
    /\ calls[1].result.status = "packet"
    /\ calls[2].result = calls[1].result
    /\ sent = <<calls[1].result.packet>>
    /\ send_queue = <<>>

-----------------------------------------------------------------------------
(* The worker when the transport raises *)

RaisedStep ==
    raised' # raised =>
        LET e == raised'[Len(raised')]
        IN  /\ running'
            /\ e.op = "send" =>
                   \E i \in DOMAIN send_queue' :
                       /\ send_queue'[i].packet = e.packet
                       /\ \E j \in DOMAIN send_queue : send_queue[j] = send_queue'[i]

SendRaisedNotLost ==
    \A i \in DOMAIN raised :
        raised[i].op = "send" =>
            \/ raised[i].packet \in QueuePackets(send_queue)
            \/ \E j \in DOMAIN sent : sent[j] = raised[i].packet

\* C19: when _conn.send or _conn.recv raises inside _message_loop the worker
\* goes on (the flag is still up and the loop can iterate), and the packet
\* whose send raised is still in _send_queue with its timestamp; later it is
\* either still queued or has been transmitted
C19_TransportErrorsSurvived == [][RaisedStep]_vars /\ []SendRaisedNotLost

\* a send raised, and a later iteration transmitted the packet
C19_Witness ==
    /\ running
    /\ send_queue = <<>>
    /\ \E i \in DOMAIN raised :
           /\ raised[i].op = "send"
           /\ \E j \in DOMAIN sent : sent[j] = raised[i].packet


-----------------------------------------------------------------------------
(* State callbacks that raise.  A discovery callback is called inside its  *)
(* own try/except; a state callback is not, so its exception leaves         *)
(* _process_state_packet, _process_packet and _process_buffer (or           *)
(* _process_mqtt_data) and is dropped by "except Exception: pass" in the    *)
(* loop.                                                                    *)

\* _process_state_packet left by the exception of the first state callback it
\* calls: the loops end with that instance
process_state_packet_raising(st, device_type, packet) ==
    CASE device_type = "light" ->
             IF Len(packet) > 4
             THEN light_loop(st, packet, 1, Min(light_count(packet) + 1, 2))
             ELSE st
      [] device_type = "plug" ->
             IF Len(packet) > 5
             THEN plug_loop(st, packet, 1, Min((At(packet, 4) \div 3) + 1, 2))
             ELSE st
      [] device_type = "thermostat" ->
             IF Len(packet) <= 4 THEN st
             ELSE IF At(packet, 4) = 13
                  THEN thermostat_special_loop(st, packet, 0,
                           Min(special_room_count(packet), 1))
                  ELSE thermostat_standard_loop(st, packet, 0,
                           Min(IF At(packet, 4) > 5 THEN (At(packet, 4) - 5) \div 2 ELSE 0, 1))
      [] OTHER -> process_state_packet(st, device_type, packet)

\* a state callback was called between st and after
CallbackCalled(st, after) ==
    /\ Len(after.ev) > Len(st.ev)
    /\ after.ev[Len(after.ev)].kind = "state"

\* the packets of one read given to _process_packet one after another, the
\* state callbacks of the types in `faulty` raising; `taken` counts the
\* packets begun
RECURSIVE process_packets_raising(_, _, _, _)
process_packets_raising(st, packets, faulty, taken) ==
    IF packets = <<>> THEN [st |-> st, raised |-> FALSE, taken |-> taken]
    ELSE LET packet == Head(packets)
             device_type == IF Len(packet) < 4 THEN "unknown"
                            ELSE known_device_type(At(packet, 1))
             risky == IF Len(packet) < 4 THEN FALSE
                      ELSE classify(packet) = "state" /\ device_type \in faulty
             after == IF risky THEN process_state_packet_raising(st, device_type, packet)
                      ELSE process_packet(st, packet)
         IN  IF risky /\ CallbackCalled(st, after)
             THEN [st |-> after, raised |-> TRUE, taken |-> taken + 1]
             ELSE process_packets_raising(after, Tail(packets), faulty, taken + 1)

\* _process_buffer left by an exception out of the n-th packet it hands on:
\* "del buffer[0:packet_length]" has been done for that packet
RECURSIVE process_buffer_until(_, _, _)
process_buffer_until(buf, packets, n) ==
    IF Len(packets) = n THEN [buffer |-> buf, packets |-> packets]
    ELSE IF Len(buf) = 0 THEN [buffer |-> buf, packets |-> packets]
    ELSE IF find_f7(buf, 0) = -1 THEN [buffer |-> <<>>, packets |-> packets]
    ELSE LET b == skip_f7(DropFirst(buf, find_f7(buf, 0)))
         IN  IF Len(b) < 4 THEN [buffer |-> b, packets |-> packets]
             ELSE IF frame_is_state(b) /\ Len(b) < 5
                  THEN [buffer |-> b, packets |-> packets]
             ELSE IF Len(b) < frame_length(b) THEN [buffer |-> b, packets |-> packets]
             ELSE LET packet == SubSeq(b, 1, frame_length(b))
                  IN  process_buffer_until(DropFirst(b, frame_length(b)),
                                           IF verify_checksum(packet)
                                           THEN Append(packets, packet)
                                           ELSE packets, n)

\* the for loop of _process_mqtt_data left by an exception out of the n-th
\* packet it hands on
RECURSIVE mqtt_changed_until(_, _, _, _)
mqtt_changed_until(unique_messages, previous, packets, n) ==
    IF Len(packets) = n THEN [previous |-> previous, packets |-> packets]
    ELSE IF unique_messages = <<>> THEN [previous |-> previous, packets |-> packets]
    ELSE LET msg == Head(unique_messages)
             signature == SubSeq(msg, 1, 4)
         IN  IF signature \notin DOMAIN previous \/ previous[signature] # msg
             THEN mqtt_changed_until(Tail(unique_messages), (signature :> msg) @@ previous,
                                     Append(packets, msg), n)
             ELSE mqtt_changed_until(Tail(unique_messages), previous, packets, n)

\* one iteration of the while loop on a serial or socket link with raising
\* state callbacks
message_loop_raising(data, faulty) ==
    LET whole == buffer \o data
        got == IF data = <<>> THEN [buffer |-> buffer, packets |-> <<>>]
               ELSE process_buffer(whole, <<>>)
        run == process_packets_raising(Session, got.packets, faulty, 0)
        kept == IF run.raised THEN process_buffer_until(whole, <<>>, run.taken) ELSE got
    IN  /\ running
        /\ sent' = sent \o [i \in DOMAIN Due(send_queue) |-> Due(send_queue)[i].packet]
        /\ send_queue' = NotDue(send_queue)
        /\ buffer' = kept.buffer
        /\ delivered' = delivered \o kept.packets
        /\ discovered' = run.st.disc
        /\ device_states' = run.st.states
        /\ events' = run.st.ev
        /\ raised' = IF run.raised
                     THEN Append(raised, [op |-> "callback",
                                          packet |-> kept.packets[run.taken]])
                     ELSE raised
        /\ UNCHANGED <<running, scenario, calls, probe, flipped, now, scriptVars,
                       ack_queue, stragglers, previous_mqtt_values, publishVars>>

\* the same on an MQTT link
message_loop_mqtt_raising(data, faulty) ==
    LET unique_messages == mqtt_unique(mqtt_split(data, <<>>, <<>>, FALSE), <<>>)
        got == IF data = <<>>
               THEN [previous |-> previous_mqtt_values, packets |-> <<>>]
               ELSE mqtt_changed(unique_messages, previous_mqtt_values, <<>>)
        run == process_packets_raising(Session, got.packets, faulty, 0)
        kept == IF run.raised
                THEN mqtt_changed_until(unique_messages, previous_mqtt_values, <<>>,
                                        run.taken)
                ELSE got
    IN  /\ running
        /\ sent' = sent \o [i \in DOMAIN Due(send_queue) |-> Due(send_queue)[i].packet]
        /\ send_queue' = NotDue(send_queue)
        /\ previous_mqtt_values' = kept.previous
        /\ delivered' = delivered \o kept.packets
        /\ discovered' = run.st.disc
        /\ device_states' = run.st.states
        /\ events' = run.st.ev
        /\ raised' = IF run.raised
                     THEN Append(raised, [op |-> "callback",
                                          packet |-> kept.packets[run.taken]])
                     ELSE raised
        /\ UNCHANGED <<running, buffer, scenario, calls, probe, flipped, now, scriptVars,
                       ack_queue, stragglers, publishVars>>

MaxCallbackChunk == 12

\* what the bus offers: packets back to back, some of them twice
CallbackStreams ==
    {GasClosed \o FanExample \o LightExample,
     LightExample \o GasClosed \o LightExample \o FanExample,
     GasClosed \o GasOpen \o FanExample \o GasClosed}

CallbackFaults == {{}, {"gas"}, {"light"}, {"gas", "light"}}

CallbackInit ==
    /\ running = FALSE
    /\ send_queue = <<>>
    /\ discovered = {}
    /\ device_states = <<>>
    /\ buffer = <<>>
    /\ scenario \in [link : {"serial", "mqtt"}, faulty : CallbackFaults,
                     stream : CallbackStreams]
    /\ wire = scenario.stream
    /\ events = <<>>
    /\ delivered = <<>>
    /\ sent = <<>>
    /\ calls = <<>>
    /\ probe = <<>>
    /\ flipped = <<>>
    /\ now = 0
    /\ ScriptStart
    /\ LinkStart
    /\ PublishStart

CallbackConnect == ~running /\ async_connect

\* recv(128) on a serial port or socket returns what has arrived
CallbackSerialLoop ==
    /\ scenario.link = "serial"
    /\ wire # <<>>
    /\ \E k \in {MaxCallbackChunk - 7, MaxCallbackChunk, Len(wire)} :
           /\ k <= Len(wire)
           /\ message_loop_raising(SubSeq(wire, 1, k), scenario.faulty)
           /\ wire' = DropFirst(wire, k)

\* EzvilleMqtt.recv(128) returns what the broker has delivered
CallbackMqttLoop ==
    /\ scenario.link = "mqtt"
    /\ wire # <<>>
    /\ message_loop_mqtt_raising(mqtt_recv(wire, RecvCount).result, scenario.faulty)
    /\ wire' = mqtt_recv(wire, RecvCount).rest

CallbackNext == CallbackConnect \/ CallbackSerialLoop \/ CallbackMqttLoop

SpecCallback == CallbackInit /\ [][CallbackNext]_vars

\* the bytes received so far
ReceivedSoFar == SubSeq(scenario.stream, 1, Len(scenario.stream) - Len(wire))

\* the packets those bytes hold for _process_packet when no callback raises
Expected ==
    IF scenario.link = "serial" THEN process_buffer(ReceivedSoFar, <<>>).packets
    ELSE process_mqtt_data(ReceivedSoFar, EmptyAck).packets

\* the packets still in the buffer
Pending ==
    IF scenario.link = "serial" THEN process_buffer(buffer, <<>>).packets ELSE <<>>

DiscoveryEvents(key) ==
    {i \in DOMAIN events : events[i].kind = "discover" /\ events[i].key = key}

\* C38: when a discovery or a state callback has raised, the loop is still
\* running, the identity is in _discovered_devices and discovery was fired once
\* for it, and the packets received after the failing one are either handed to
\* _process_packet already or still in the buffer for a later iteration
C38_CallbackFailureContained ==
    /\ (raised # <<>> => running)
    /\ \A i \in DOMAIN events :
           /\ events[i].key \in discovered
           /\ Cardinality(DiscoveryEvents(events[i].key)) = 1
    /\ delivered \o Pending = Expected

=============================================================================
